---- MODULE Spec2Model ----
(***************************************************************************)
(* A model of xrfc, the XRF compiler: the parser, the chunk optimizer      *)
(* (symbolic stack simulator), the program optimizer (chunk fusion) and    *)
(* the program that the code generator emits (ring stack, visited flags,   *)
(* dispatch).                                                              *)
(*                                                                         *)
(* 32-bit quantities (unsigned, int, i32) are kept at their width.  TLC's  *)
(* integers are 32-bit signed, so a 32-bit pattern is a pair <<hi, lo>> of *)
(* 16-bit halves and the arithmetic is written on the halves.              *)
(***************************************************************************)
EXTENDS Integers, Sequences, FiniteSets, TLC

\* ------------------------------------------------------------------------
\* 32-bit words
\* ------------------------------------------------------------------------

Half == 65536

\* The 32-bit pattern of the natural number n (n < 2^31).
U(n) == <<n \div Half, n % Half>>

\* An LLVM poison value (result of a nuw multiplication that wrapped).
Poison == <<-1, -1>>

IsPoison(v) == v[1] < 0

Word == (0 .. Half - 1) \X (0 .. Half - 1)

Add32(a, b) ==
    IF IsPoison(a) \/ IsPoison(b) THEN Poison
    ELSE LET lo == a[2] + b[2]
             hi == a[1] + b[1] + (lo \div Half)
         IN  <<hi % Half, lo % Half>>

Sub32(a, b) ==
    IF IsPoison(a) \/ IsPoison(b) THEN Poison
    ELSE LET lo == a[2] - b[2]
             borrow == IF lo < 0 THEN 1 ELSE 0
             hi == a[1] - b[1] - borrow
         IN  <<(hi + Half) % Half, (lo + Half) % Half>>

\* unsigned a > b
Ugt32(a, b) == a[1] > b[1] \/ (a[1] = b[1] /\ a[2] > b[2])

\* The 32-bit pattern of the small signed integer n (two's complement).
I32(n) == IF n >= 0 THEN U(n) ELSE Sub32(U(0), U(0 - n))

\* a * k for a small natural k, by repeated addition; wrapped is TRUE when
\* the unsigned product does not fit in 32 bits.
RECURSIVE MulSmall(_, _)
MulSmall(a, k) ==
    IF k = 0 THEN [val |-> U(0), wrapped |-> FALSE]
    ELSE LET r == MulSmall(a, k - 1)
             s == Add32(r.val, a)
         IN  [val |-> s, wrapped |-> r.wrapped \/ Ugt32(r.val, s)]

\* mul nuw i32 a, m : poison when the unsigned product wraps.
MulNUW32(a, m) ==
    IF IsPoison(a) THEN Poison
    ELSE IF m[1] # 0 THEN (IF a = U(0) THEN U(0) ELSE Poison)
    ELSE LET r == MulSmall(a, m[2])
         IN  IF r.wrapped THEN Poison ELSE r.val

\* ------------------------------------------------------------------------
\* Commands and chunks
\* ------------------------------------------------------------------------

COMMANDS_PER_CHUNK == 5

PrimitiveTypes ==
    {"Input", "Output", "Pop", "Dup", "Swap", "Inc", "Dec", "Add",
     "IgnoreFirst", "Bottom", "Jump", "Exit", "IgnoreVisited", "Randomize",
     "Sub", "Nop"}

ExtendedTypes ==
    {"AddToSecond", "MultiplySecond", "PopSecondValue", "PushSecondValue",
     "PushValueToBottom", "SetSecondValue", "SetTop"}

\* Command(type) and Command(type, val)
Command(type) == [type |-> type, val |-> U(0)]

CommandVal(type, val) == [type |-> type, val |-> val]

\* The commands written with the characters of these types.
Cmds(types) == [k \in 1 .. Len(types) |-> Command(types[k])]

\* std::optional
Nullopt == <<>>

Some(x) == <<x>>

HasValue(o) == o # Nullopt

Deref(o) == o[1]

\* ------------------------------------------------------------------------
\* The emitted program's data: stack[STACK_SIZE], stack_top, stack_bottom
\* and the hoisted top_value.  The array is kept sparse: a cell that was
\* never stored to is absent from the function and reads as undef.
\* ------------------------------------------------------------------------

STACK_SIZE == 65536

STACK_MASK == 65535

\* An index that is stored without the AND.
AndMask_Unmasked(x) == x

\* CreateAnd(x, STACK_MASK) on an i64.  STACK_MASK + 1 divides 2^64, so the
\* low 16 bits of the wrapped 64-bit result are those of the integer x.
AndMask(x) == x % (STACK_MASK + 1)

ReadCell(m, a, u) == IF a \in DOMAIN m.stack THEN m.stack[a] ELSE u

WriteCell(stack, a, v) ==
    [x \in (DOMAIN stack) \cup {a} |-> IF x = a THEN v ELSE stack[x]]

\* getGenerationContext: the stores of the start block.
StartMachine ==
    [stack |-> << >>, stackTop |-> 0, stackBottom |-> STACK_SIZE - 1,
     topValue |-> U(0), gep |-> {}]

emitAddConstant(m, toAdd) ==
    [m EXCEPT !.topValue = Add32(I32(toAdd), m.topValue)]

emitBottom(m, value) ==
    [m EXCEPT !.stack = WriteCell(m.stack, m.stackBottom, value),
              !.stackBottom = AndMask(m.stackBottom - 1),
              !.gep = @ \cup {m.stackBottom}]

\* The index of the second value of the stack.
emitGet2ndValue(m) == AndMask(m.stackTop - 1)

emitPop(m, u) ==
    LET topWrapped == AndMask(m.stackTop - 1)
    IN  [m EXCEPT !.topValue = ReadCell(m, topWrapped, u),
                  !.stackTop = topWrapped,
                  !.gep = @ \cup {topWrapped}]

\* A push that stores the pushed value, not the old top, into the array.
emitPush_StoresValue(m, value) ==
    [m EXCEPT !.stack = WriteCell(m.stack, m.stackTop, value),
              !.topValue = value,
              !.stackTop = AndMask(m.stackTop + 1),
              !.gep = @ \cup {m.stackTop}]

emitPush(m, value) ==
    [m EXCEPT !.stack = WriteCell(m.stack, m.stackTop, m.topValue),
              !.topValue = value,
              !.stackTop = AndMask(m.stackTop + 1),
              !.gep = @ \cup {m.stackTop}]

generateAdd(m, u) ==
    LET oldTop == m.topValue
        p == emitPop(m, u)
    IN  [p EXCEPT !.topValue = Add32(oldTop, p.topValue)]

generateAdd2nd(m, diff, u) ==
    LET secondPtr == emitGet2ndValue(m)
    IN  [m EXCEPT !.stack = WriteCell(m.stack, secondPtr,
                                      Add32(ReadCell(m, secondPtr, u), diff)),
                  !.gep = @ \cup {secondPtr}]

generateBottom(m, u) ==
    LET topValue == m.topValue
    IN  emitBottom(emitPop(m, u), topValue)

generateDec(m) == emitAddConstant(m, -1)

generateDup(m) == emitPush(m, m.topValue)

generateInc(m) == emitAddConstant(m, 1)

\* getchar() returns -1 at end of file, which is replaced by 0.
generateInput(m, inputChar) ==
    emitPush(m, IF inputChar = I32(-1) THEN U(0) ELSE inputChar)

generateMultiply2nd(m, mul, u) ==
    LET secondPtr == emitGet2ndValue(m)
    IN  [m EXCEPT !.stack = WriteCell(m.stack, secondPtr,
                                      MulNUW32(ReadCell(m, secondPtr, u), mul)),
                  !.gep = @ \cup {secondPtr}]

generateOutput(m, u) == emitPop(m, u)

generatePop(m, u) == emitPop(m, u)

generatePopSecond(m) ==
    [m EXCEPT !.stackTop = AndMask(m.stackTop - 1)]

\* An insertion that pushes the value on top of the stack.
generatePushSecondValue_OnTop(m, val) == emitPush(m, val)

generatePushSecondValue(m, val) ==
    [m EXCEPT !.stack = WriteCell(m.stack, m.stackTop, val),
              !.stackTop = AndMask(1 + m.stackTop),
              !.gep = @ \cup {m.stackTop}]

generatePushToBottom(m, val) == emitBottom(m, val)

generateSetSecondValue(m, val) ==
    LET secondPtr == emitGet2ndValue(m)
    IN  [m EXCEPT !.stack = WriteCell(m.stack, secondPtr, val),
                  !.gep = @ \cup {secondPtr}]

generateSetTop(m, val) == [m EXCEPT !.topValue = val]

generateSub(m, u) ==
    LET value1 == m.topValue
        p == emitPop(m, u)
        value2 == p.topValue
    IN  [p EXCEPT !.topValue =
            IF IsPoison(value1) \/ IsPoison(value2) THEN Poison
            ELSE IF Ugt32(value1, value2) THEN Sub32(value1, value2)
            ELSE Sub32(value2, value1)]

generateSwap(m, u) ==
    LET stack2ndIndex == AndMask(m.stackTop - 1)
        stack2ndValue == ReadCell(m, stack2ndIndex, u)
    IN  [m EXCEPT !.stack = WriteCell(m.stack, stack2ndIndex, m.topValue),
                  !.topValue = stack2ndValue,
                  !.gep = @ \cup {stack2ndIndex}]

\* The code emitted for one command that does not end or split the block
\* (the switch of generateCodeForChunk).  env.undef is the value that a load
\* of a never-stored cell yields, env.inp the value getchar() returns.
ExecCommand(m0, command, env) ==
    LET m == [m0 EXCEPT !.gep = {}]
        t == command.type
    IN  CASE t = "Add" -> generateAdd(m, env.undef)
          [] t = "AddToSecond" -> generateAdd2nd(m, command.val, env.undef)
          [] t = "Bottom" -> generateBottom(m, env.undef)
          [] t = "Dec" -> generateDec(m)
          [] t = "Dup" -> generateDup(m)
          [] t = "Inc" -> generateInc(m)
          [] t = "Input" -> generateInput(m, env.inp)
          [] t = "MultiplySecond" -> generateMultiply2nd(m, command.val, env.undef)
          [] t = "Output" -> generateOutput(m, env.undef)
          [] t = "Pop" -> generatePop(m, env.undef)
          [] t = "PopSecondValue" -> generatePopSecond(m)
          [] t = "PushSecondValue" -> generatePushSecondValue(m, command.val)
          [] t = "PushValueToBottom" -> generatePushToBottom(m, command.val)
          [] t = "SetSecondValue" -> generateSetSecondValue(m, command.val)
          [] t = "SetTop" -> generateSetTop(m, command.val)
          [] t = "Sub" -> generateSub(m, env.undef)
          [] t = "Swap" -> generateSwap(m, env.undef)
          [] OTHER -> m

\* ------------------------------------------------------------------------
\* StackValue: what the simulator knows about one stack slot
\* ------------------------------------------------------------------------

\* StackValue(index, val)
StackValue(index, val) ==
    [index |-> Some(index), value |-> Some(val), change |-> I32(0),
     multiple |-> U(1)]

\* StackValue() = default
StackValueDefault ==
    [index |-> Nullopt, value |-> Nullopt, change |-> I32(0),
     multiple |-> U(1)]

fromIndex(index) == [StackValueDefault EXCEPT !.index = Some(index)]

fromValue(value) == [StackValueDefault EXCEPT !.value = Some(value)]

hasKnownValue(v) == HasValue(v.value)

getKnownValue(v) == Deref(v.value)

hasKnownIndex(v) == HasValue(v.index)

getIndex(v) == Deref(v.index)

getValue(v) == v.value

getChange(v) == v.change

getMultiple(v) == v.multiple

\* The fall-through of add and sub: nothing is known any more.
Forget(v) == [v EXCEPT !.index = Nullopt, !.value = Nullopt]

StackValue_add(this, value) ==
    IF hasKnownValue(this) /\ hasKnownValue(value)
    THEN [this EXCEPT !.value = Some(Add32(getKnownValue(this), getKnownValue(value)))]
    ELSE IF hasKnownValue(this)
    THEN Forget(this)
    ELSE IF hasKnownIndex(this)
    THEN IF hasKnownIndex(value) /\ getIndex(value) = getIndex(this)
         THEN [this EXCEPT !.multiple = Add32(this.multiple, value.multiple)]
         ELSE IF hasKnownValue(value)
         THEN [this EXCEPT !.change = Add32(this.change, getKnownValue(value))]
         ELSE Forget(this)
    ELSE Forget(this)

\* A dec that gives up the known value.
StackValue_dec_Forgets(this) ==
    [this EXCEPT !.value = Nullopt, !.change = Sub32(this.change, U(1))]

StackValue_dec(this) ==
    IF hasKnownValue(this) /\ Ugt32(getKnownValue(this), U(0))
    THEN [this EXCEPT !.value = Some(Sub32(getKnownValue(this), U(1)))]
    ELSE [this EXCEPT !.value = Nullopt, !.change = Sub32(this.change, U(1))]

\* val2 is read from this value, not from the argument.
StackValue_sub(this, value) ==
    IF hasKnownValue(this) /\ hasKnownValue(value)
    THEN LET val1 == getKnownValue(this)
             val2 == getKnownValue(this)
         IN  [this EXCEPT !.value =
                 Some(IF Ugt32(val1, val2) THEN Sub32(val1, val2)
                      ELSE Sub32(val2, val1))]
    ELSE Forget(this)

\* ------------------------------------------------------------------------
\* StackSimulator
\* ------------------------------------------------------------------------

\* StackSimulator(index)
NewSimulator(index) ==
    [origIndex |-> U(index), maxPopped |-> 0, hadIO |-> FALSE,
     bottom |-> << >>, values |-> <<StackValue(0, U(index))>>]

doPush(s, value) == [s EXCEPT !.values = Append(@, value)]

\* doPop returns the popped value (val) and the simulator after the pop (sim).
doPop(s) ==
    IF s.values # << >>
    THEN [val |-> s.values[Len(s.values)],
          sim |-> [s EXCEPT !.values = SubSeq(@, 1, Len(@) - 1)]]
    ELSE [val |-> fromIndex(s.maxPopped + 1),
          sim |-> [s EXCEPT !.maxPopped = @ + 1]]

Sim_add(s) ==
    LET p1 == doPop(s)
        p2 == doPop(p1.sim)
    IN  doPush(p2.sim, StackValue_add(p1.val, p2.val))

Sim_bottom(s) ==
    LET p == doPop(s)
    IN  [p.sim EXCEPT !.bottom = Append(@, p.val)]

Sim_dec(s) ==
    LET p == doPop(s)
    IN  doPush(p.sim, StackValue_dec(p.val))

Sim_dup(s) ==
    LET p == doPop(s)
    IN  doPush(doPush(p.sim, p.val), p.val)

Sim_inc(s) ==
    LET p == doPop(s)
    IN  doPush(p.sim, StackValue_add(p.val, fromValue(U(1))))

Sim_input(s) == [doPush(s, StackValueDefault) EXCEPT !.hadIO = TRUE]

Sim_output(s) == [doPop(s).sim EXCEPT !.hadIO = TRUE]

Sim_pop(s) == doPop(s).sim

Sim_sub(s) ==
    LET p1 == doPop(s)
        p2 == doPop(p1.sim)
    IN  doPush(p2.sim, StackValue_sub(p1.val, p2.val))

Sim_swap(s) ==
    LET p1 == doPop(s)
        p2 == doPop(p1.sim)
    IN  doPush(doPush(p2.sim, p1.val), p2.val)

\* getStackTop pops and pushes back, so it can raise maxPopped.
getStackTop(s) ==
    LET p == doPop(s)
    IN  [top |-> getValue(p.val), sim |-> doPush(p.sim, p.val)]

allKnownValues(values) ==
    \A k \in 1 .. Len(values) : hasKnownValue(values[k])

\* canOptimize without the test of _hadIO.
canOptimize_IgnoresIO(s) ==
    /\ s.maxPopped < 2
    /\ allKnownValues(s.bottom)
    /\ Len(s.values) <= 2
    /\ Len(s.values) >= 1
    /\ hasKnownValue(s.values[Len(s.values)])
    /\ \/ Len(s.values) = 1
       \/ hasKnownValue(s.values[1])
       \/ (hasKnownIndex(s.values[1]) /\ getIndex(s.values[1]) = 1)

canOptimize(s) ==
    /\ ~s.hadIO
    /\ s.maxPopped < 2
    /\ allKnownValues(s.bottom)
    /\ Len(s.values) <= 2
    /\ Len(s.values) >= 1
    /\ hasKnownValue(s.values[Len(s.values)])
    /\ \/ Len(s.values) = 1
       \/ hasKnownValue(s.values[1])
       \/ (hasKnownIndex(s.values[1]) /\ getIndex(s.values[1]) = 1)

\* The second-slot command chosen without looking at _maxPopped.
SecondCommands_AlwaysPush(s) ==
    IF Len(s.values) > 1
    THEN LET secondValue == s.values[1]
         IN  IF hasKnownValue(secondValue)
             THEN <<CommandVal("PushSecondValue", getKnownValue(secondValue))>>
             ELSE IF Ugt32(getMultiple(secondValue), U(1))
             THEN <<CommandVal("MultiplySecond", getMultiple(secondValue))>>
             ELSE IF getChange(secondValue) # I32(0)
             THEN <<CommandVal("AddToSecond", getChange(secondValue))>>
             ELSE << >>
    ELSE IF s.maxPopped = 1
    THEN <<Command("PopSecondValue")>>
    ELSE << >>

\* The command for the second slot, as a sequence of zero or one command.
SecondCommands(s) ==
    IF Len(s.values) > 1
    THEN LET secondValue == s.values[1]
         IN  IF hasKnownValue(secondValue)
             THEN IF s.maxPopped = 0
                  THEN <<CommandVal("PushSecondValue", getKnownValue(secondValue))>>
                  ELSE <<CommandVal("SetSecondValue", getKnownValue(secondValue))>>
             ELSE IF Ugt32(getMultiple(secondValue), U(1))
             THEN <<CommandVal("MultiplySecond", getMultiple(secondValue))>>
             ELSE IF getChange(secondValue) # I32(0)
             THEN <<CommandVal("AddToSecond", getChange(secondValue))>>
             ELSE << >>
    ELSE IF s.maxPopped = 1
    THEN <<Command("PopSecondValue")>>
    ELSE << >>

\* getCommands: Nullopt, or Some(the optimized command list).
getCommands(s) ==
    IF ~canOptimize(s) THEN Nullopt
    ELSE LET top == getKnownValue(s.values[Len(s.values)])
             bottoms == [k \in 1 .. Len(s.bottom) |->
                            CommandVal("PushValueToBottom", getKnownValue(s.bottom[k]))]
             setTop == IF s.origIndex # top
                       THEN <<CommandVal("SetTop", top)>> ELSE << >>
         IN  Some(bottoms \o setTop \o SecondCommands(s))

\* The commands optimizeChunk simulates; the others end the loop.
SimulatedTypes ==
    {"Add", "Bottom", "Output", "Pop", "Dec", "Dup", "Inc", "Input", "Nop",
     "Sub", "Swap"}

AbortingTypes == {"Exit", "Randomize", "IgnoreFirst", "IgnoreVisited"}

\* One case of the switch in optimizeChunk.
SimulateCommand(s, type) ==
    CASE type = "Add" -> Sim_add(s)
      [] type = "Bottom" -> Sim_bottom(s)
      [] type = "Output" -> Sim_output(s)
      [] type = "Pop" -> Sim_pop(s)
      [] type = "Dec" -> Sim_dec(s)
      [] type = "Dup" -> Sim_dup(s)
      [] type = "Inc" -> Sim_inc(s)
      [] type = "Input" -> Sim_input(s)
      [] type = "Sub" -> Sim_sub(s)
      [] type = "Swap" -> Sim_swap(s)
      [] OTHER -> s

\* The tail of optimizeChunk that sets the commands and never next.
FinishChunk_CommandsOnly(chunk, s, canOpt) ==
    IF ~canOpt THEN chunk
    ELSE LET cmds == getCommands(getStackTop(s).sim)
         IN  IF HasValue(cmds)
             THEN [chunk EXCEPT !.commands = Deref(cmds)]
             ELSE chunk

\* The tail of optimizeChunk that ignores the flag canOptimize.
FinishChunk_IgnoresFlag(chunk, s, canOpt) ==
    LET t == getStackTop(s)
        withNext == IF HasValue(t.top)
                    THEN [chunk EXCEPT !.nextChunk = t.top] ELSE chunk
        cmds == getCommands(t.sim)
    IN  IF HasValue(cmds)
        THEN [withNext EXCEPT !.commands = Deref(cmds)]
        ELSE withNext

\* The tail of optimizeChunk (after the loop): chunk is the input chunk,
\* s the simulator, canOpt the flag canOptimize.
FinishChunk(chunk, s, canOpt) ==
    IF ~canOpt THEN chunk
    ELSE LET t == getStackTop(s)
             withNext == IF HasValue(t.top)
                         THEN [chunk EXCEPT !.nextChunk = t.top] ELSE chunk
             cmds == getCommands(t.sim)
         IN  IF HasValue(cmds)
             THEN [withNext EXCEPT !.commands = Deref(cmds)]
             ELSE withNext

\* optimizeChunk as a function of the whole chunk: the loop over the
\* commands, left at a Jump or at an aborting command.
RECURSIVE SimulateFrom(_, _, _)
SimulateFrom(commands, k, s) ==
    IF k > Len(commands) THEN [sim |-> s, canOptimize |-> TRUE]
    ELSE LET type == commands[k].type
         IN  IF type = "Jump" THEN [sim |-> s, canOptimize |-> TRUE]
             ELSE IF type \in AbortingTypes THEN [sim |-> s, canOptimize |-> FALSE]
             ELSE SimulateFrom(commands, k + 1, SimulateCommand(s, type))

optimizeChunk(chunk, index) ==
    LET r == SimulateFrom(chunk.commands, 1, NewSimulator(index))
    IN  FinishChunk(chunk, r.sim, r.canOptimize)

\* optimizeChunks: chunk i of the program is optimized with index i
\* (0-based; sequences are 1-based).
optimizeChunks(chunks) ==
    [k \in 1 .. Len(chunks) |-> optimizeChunk(chunks[k], k - 1)]

\* A chunk as the parser builds it.
Chunk(commands, line, col) ==
    [commands |-> commands, line |-> line, col |-> col, nextChunk |-> Nullopt]

\* ------------------------------------------------------------------------
\* Running commands on the emitted program's data
\* ------------------------------------------------------------------------

\* What a load of a never-stored cell shows when the contents are listed.
Undef == <<-2, -2>>

\* A machine whose logical stack is below (bottom first) with top on top.
MachineWith(top, below) ==
    [stack |-> [a \in 0 .. Len(below) - 1 |-> below[a + 1]],
     stackTop |-> Len(below), stackBottom |-> STACK_SIZE - 1,
     topValue |-> top, gep |-> {}]

\* The number of cells between stack_bottom and stack_top (the elements
\* below the hoisted top).
CellsBelowTop(m) == AndMask(m.stackTop - 1 - m.stackBottom)

\* The logical stack, bottom first, the hoisted top last.
Contents(m) ==
    [k \in 1 .. CellsBelowTop(m) + 1 |->
        IF k = CellsBelowTop(m) + 1 THEN m.topValue
        ELSE ReadCell(m, AndMask(m.stackBottom + k), Undef)]

\* The commands of a chunk's block in order, up to the end or a Jump.
RECURSIVE RunCommands(_, _, _, _)
RunCommands(m, commands, k, env) ==
    IF k > Len(commands) \/ commands[k].type = "Jump" THEN m
    ELSE RunCommands(ExecCommand(m, commands[k], env), commands, k + 1, env)

\* The chunk entered after the block of chunk: the known next if there is
\* one, else the dispatch on top_value.
ChunkEntered(chunk, m) ==
    IF HasValue(chunk.nextChunk) THEN Deref(chunk.nextChunk) ELSE m.topValue

\* ------------------------------------------------------------------------
\* State
\* ------------------------------------------------------------------------

VARIABLES
    index,       \* optimizeChunk: the chunk's index
    chunk,       \* optimizeChunk: the input chunk (in the loop: as far as read)
    stack,       \* optimizeChunk: the StackSimulator
    canOpt,      \* optimizeChunk: canOptimize
    optimized,   \* optimizeChunk: the returned chunk (Nullopt while looping)
    pcOpt,       \* optimizeChunk: "loop" or "done"
    optimizationLevel, \* main: the -O option
    chunks,            \* main: the chunk list handed from stage to stage
    pcMain,            \* main: the stage the pipeline is in
    optimizedProgram,  \* optimizeProgram: the vector being filled
    fuseIndex,         \* optimizeChunkInProgram: index
    toOptimize,        \* optimizeChunkInProgram: toOptimize
    optimizedChunk,    \* optimizeChunkInProgram: optimizedChunk
    visited,           \* optimizeChunkInProgram: visited
    blocks,            \* generateChunks: the code generated per chunk
    tableReads,        \* generateChunks: indices read from the block table
    printVersion,      \* main: the --version flag
    filename,          \* main: the file argument
    outFilename,       \* main: the -o option
    file,              \* main: the std::ifstream ("closed", "open", "failed")
    parsed,            \* main: result, the variant parseXrf returned
    outFile,           \* main: the raw_fd_ostream ("closed", "written", "failed")
    cout,              \* the lines written to std::cout
    cerr,              \* the lines written to std::cerr
    numErrors,         \* printParserErrors: numErrors
    exitCode,          \* what main returned (Nullopt while it runs)
    machine,     \* emitted program: stack, stack_top, stack_bottom, top_value
    logical,     \* the abstract stack the emitted program stands for
    tracked,     \* logical is defined (the commands so far kept it so)
    ringSteps,   \* emitted program: commands executed
    visitChunk,  \* emitted program: the source chunk of block chunk0
    chunkBlock,  \* emitted program: the basic block being executed
    opIndex,     \* emitted program: the next instruction group of chunkBlock
    visitedFlag, \* emitted program: the global visited-0
    visitCount,  \* emitted program: times chunk0 was entered
    executed,    \* emitted program: command positions run in this visit
    pcVisit,     \* emitted program: "start", "block", "stack-jump", ...
    fileRead,    \* std::istream: the characters get() has delivered
    fileEof,     \* std::istream: get() has failed
    highIsSpace, \* C library: isspace() of a char outside 0..127
    fileLine,    \* FileReader: _line
    fileCol,     \* FileReader: _col
    parsedChunks, \* parseXrf: chunks
    errors,      \* parseXrf: errors
    current,     \* parseChunk: chunk
    result,      \* parseXrf: the returned variant
    pcParse,     \* parser: "parseXrf", "parseChunk" or "returned"
    runChunks,    \* generateCode: the chunk list the module was generated from
    runIndex,     \* emitted module: the chunk whose code is being executed
    runBlock,     \* emitted module: the basic block being executed
    runOp,        \* emitted module: the next instruction group of runBlock
    runMachine,   \* emitted module: stack, stack_top, stack_bottom, top_value
    visitedFlags, \* emitted module: the globals visited-<i>
    runReturn,    \* emitted module: what main returned (Nullopt while it runs)
    pcRun,        \* emitted module: "start", "block", "stack-jump", ...
    runEntries,   \* history: chunk blocks entered so far
    runPath,      \* history: command positions run since the block was entered
    runSides,     \* history: the sides taken at the visited tests since then
    firstRuns     \* history: per chunk, the entries that took a first-visit side

optVars == <<index, chunk, stack, canOpt, optimized, pcOpt>>

mainVars == <<optimizationLevel, chunks, pcMain>>

fuseVars == <<optimizedProgram, fuseIndex, toOptimize, optimizedChunk, visited>>

genVars == <<blocks, tableReads>>

cliVars == <<printVersion, filename, outFilename, file, parsed, outFile,
             cout, cerr, numErrors, exitCode>>

progVars == <<mainVars, fuseVars, genVars, cliVars>>

ringVars == <<machine, logical, tracked, ringSteps>>

visitVars == <<visitChunk, chunkBlock, opIndex, visitedFlag, visitCount, executed, pcVisit>>

readerVars == <<fileRead, fileEof, highIsSpace, fileLine, fileCol>>

parseVars == <<readerVars, parsedChunks, errors, current, result, pcParse>>

runVars == <<runChunks, runIndex, runBlock, runOp, runMachine, visitedFlags,
             runReturn, pcRun, runEntries, runPath, runSides, firstRuns>>

vars == <<optVars, progVars, ringVars, visitVars, parseVars, runVars>>

\* What the actions of one part of the program leave alone.
notOpt == <<progVars, ringVars, visitVars, parseVars, runVars>>

notProg == <<optVars, ringVars, visitVars, parseVars, runVars>>

notRing == <<optVars, progVars, visitVars, parseVars, runVars>>

notVisit == <<optVars, progVars, parseVars, runVars>>

notParse == <<optVars, progVars, ringVars, visitVars, runVars>>

notRun == <<optVars, progVars, ringVars, visitVars, parseVars>>

\* The variables of a part of the program that a specification does not run.
OptIdle ==
    /\ index = 0
    /\ chunk = Nullopt
    /\ stack = Nullopt
    /\ canOpt = FALSE
    /\ optimized = Nullopt
    /\ pcOpt = "idle"

ProgIdle ==
    /\ optimizationLevel = 0
    /\ chunks = << >>
    /\ pcMain = "idle"
    /\ optimizedProgram = << >>
    /\ fuseIndex = 0
    /\ toOptimize = Nullopt
    /\ optimizedChunk = Nullopt
    /\ visited = {}
    /\ blocks = << >>
    /\ tableReads = {}
    /\ printVersion = FALSE
    /\ filename = ""
    /\ outFilename = ""
    /\ file = "closed"
    /\ parsed = Nullopt
    /\ outFile = "closed"
    /\ cout = << >>
    /\ cerr = << >>
    /\ numErrors = 0
    /\ exitCode = Nullopt

RingIdle ==
    /\ machine = Nullopt
    /\ logical = << >>
    /\ tracked = FALSE
    /\ ringSteps = 0

VisitIdle ==
    /\ visitChunk = Nullopt
    /\ chunkBlock = Nullopt
    /\ opIndex = 0
    /\ visitedFlag = FALSE
    /\ visitCount = 0
    /\ executed = << >>
    /\ pcVisit = "idle"

ParseIdle ==
    /\ fileRead = << >>
    /\ fileEof = FALSE
    /\ highIsSpace = FALSE
    /\ fileLine = 0
    /\ fileCol = 0
    /\ parsedChunks = << >>
    /\ errors = << >>
    /\ current = Nullopt
    /\ result = Nullopt
    /\ pcParse = "idle"

RunIdle ==
    /\ runChunks = << >>
    /\ runIndex = 0
    /\ runBlock = Nullopt
    /\ runOp = 0
    /\ runMachine = Nullopt
    /\ visitedFlags = << >>
    /\ runReturn = Nullopt
    /\ pcRun = "idle"
    /\ runEntries = 0
    /\ runPath = << >>
    /\ runSides = {}
    /\ firstRuns = << >>

\* ------------------------------------------------------------------------
\* optimizeChunk, one loop iteration per step
\* ------------------------------------------------------------------------

\* Chunk indices tried.
MaxIndex == 2

OptInit ==
    /\ index \in 0 .. MaxIndex
    /\ chunk = Chunk(<< >>, 1, 1 + index * (COMMANDS_PER_CHUNK + 1))
    /\ stack = NewSimulator(index)
    /\ canOpt = TRUE
    /\ optimized = Nullopt
    /\ pcOpt = "loop"
    /\ ProgIdle /\ RingIdle /\ VisitIdle /\ ParseIdle /\ RunIdle

\* The commands of a chunk that the loop leaves unread.
UnreadTypes == {"Nop", "Inc"}

Unread(n) == { Cmds(types) : types \in [1 .. n -> UnreadTypes] }

\* The loop body for the next command; leaving the loop (last command, Jump,
\* aborting command) runs the rest of optimizeChunk on the whole chunk, the
\* commands the loop did not read included.
OptCommand(type, leave) ==
    /\ pcOpt = "loop"
    /\ LET read == [chunk EXCEPT !.commands = Append(@, Command(type))]
           sim == SimulateCommand(stack, type)
           can == type \notin AbortingTypes
       IN  /\ stack' = sim
           /\ canOpt' = can
           /\ IF leave \/ Len(read.commands) = COMMANDS_PER_CHUNK
              THEN \E rest \in Unread(COMMANDS_PER_CHUNK - Len(read.commands)) :
                     LET whole == [read EXCEPT !.commands = @ \o rest]
                     IN  /\ chunk' = whole
                         /\ optimized' = Some(FinishChunk(whole, sim, can))
                         /\ pcOpt' = "done"
              ELSE /\ chunk' = read
                   /\ optimized' = Nullopt
                   /\ pcOpt' = "loop"
    /\ UNCHANGED <<index, notOpt>>

OptSimulate == \E type \in SimulatedTypes : OptCommand(type, FALSE)

OptJump == OptCommand("Jump", TRUE)

OptAbort == \E type \in AbortingTypes : OptCommand(type, TRUE)

OptNext == OptSimulate \/ OptJump \/ OptAbort

SpecOpt == OptInit /\ [][OptNext]_vars

\* ------------------------------------------------------------------------
\* Claims about optimizeChunk (SpecOpt)
\* ------------------------------------------------------------------------

\* Stacks below the entry top, bottom first; the last element is the slot
\* directly below the top.  Deep enough that five commands never reach
\* the bottom of the stack.
InitialStacks ==
    { <<U(21), U(22), U(23), U(24), U(25), U(26)>>,
      <<U(3), U(0), I32(-1), U(1), U(0), <<32768, 1>> >>,
      <<U(0), U(0), U(0), U(0), U(0), U(0)>> }

\* What getchar() may return: end of file, or a character.
InputValues == {I32(-1), U(65)}

Envs == [undef : {U(0)}, inp : InputValues]

\* The optimized chunk leaves the same stack and enters the same chunk as
\* the input chunk, from the entry stack below with the index on top.
SameEffect(below, env) ==
    LET m0 == MachineWith(U(index), below)
        a == RunCommands(m0, chunk.commands, 1, env)
        b == RunCommands(m0, Deref(optimized).commands, 1, env)
    IN  /\ Contents(a) = Contents(b)
        /\ a.topValue = ChunkEntered(Deref(optimized), b)

\* C1: for every index, every chunk built from the twelve simulated
\* commands and every entry stack with the index on top, the commands of
\* optimizeChunk's result end with the same stack contents and the same next
\* chunk as the chunk itself.
C1_OptimizedChunkEquivalent ==
    (pcOpt = "done" /\ canOpt) =>
        \A below \in InitialStacks : \A env \in Envs : SameEffect(below, env)

\* C2: if optimizeChunk sets next = k then, on every entry stack with the
\* index on top on which the chunk performs no I/O, executing the chunk
\* leaves k on top.
C2_SuccessorSound ==
    (pcOpt = "done" /\ canOpt /\ ~stack.hadIO /\ HasValue(Deref(optimized).nextChunk)) =>
        \A below \in InitialStacks : \A env \in Envs :
            RunCommands(MachineWith(U(index), below), chunk.commands, 1, env).topValue
                = Deref(Deref(optimized).nextChunk)

\* ------------------------------------------------------------------------
\* optimizeProgram: chunk fusion
\* ------------------------------------------------------------------------

\* The array passed to chunkOnlyHas by optimizeChunkInProgram.
FusableTypes ==
    {"AddToSecond", "MultiplySecond", "PushSecondValue", "SetSecondValue",
     "SetTop"}

chunkOnlyHas(c, types) ==
    \A k \in 1 .. Len(c.commands) : c.commands[k].type \in types

RemoveAt(seq, k) == SubSeq(seq, 1, k - 1) \o SubSeq(seq, k + 1, Len(seq))

\* The reverse loop of condenseStackTops at position k (1-based), with the
\* flag foundStackTop.  After an erase the reverse iterator goes on with
\* the element before the erased one.
RECURSIVE CondenseFrom(_, _, _)
CondenseFrom(commands, k, foundStackTop) ==
    IF k = 0 THEN commands
    ELSE IF commands[k].type = "SetTop"
    THEN IF foundStackTop
         THEN CondenseFrom(RemoveAt(commands, k), k - 1, TRUE)
         ELSE CondenseFrom(commands, k - 1, TRUE)
    ELSE CondenseFrom(commands, k - 1, foundStackTop)

\* A condensation that scans from the left, so that the first SetTop survives.
RECURSIVE CondenseKeepFirst(_, _, _)
CondenseKeepFirst(commands, k, foundStackTop) ==
    IF k > Len(commands) THEN commands
    ELSE IF commands[k].type = "SetTop"
    THEN IF foundStackTop
         THEN CondenseKeepFirst(RemoveAt(commands, k), k, TRUE)
         ELSE CondenseKeepFirst(commands, k + 1, TRUE)
    ELSE CondenseKeepFirst(commands, k + 1, foundStackTop)

condenseStackTops_KeepFirst(commands) == CondenseKeepFirst(commands, 1, FALSE)

condenseStackTops(commands) == CondenseFrom(commands, Len(commands), FALSE)

\* The line and column of a default-constructed Chunk are never assigned:
\* a marker (no line or column is negative) that stands for any int.
Indeterminate == 0 - 1

\* col + offset, for a column that may be indeterminate.
ColPlus(col, offset) == IF col = Indeterminate THEN Indeterminate ELSE col + offset

\* Chunk optimizedChunk;
DefaultChunk ==
    [commands |-> << >>, line |-> Indeterminate, col |-> Indeterminate,
     nextChunk |-> Nullopt]

\* A 32-bit index w is a valid subscript of a vector of n elements.
InRange(w, n) == w[1] = 0 /\ w[2] < n

\* vector[w] for a valid subscript.
At(vector, w) == vector[w[2] + 1]

\* A return that never falls back to the original chunk.
FuseResult_AlwaysFused(originalChunk, fused) ==
    [fused EXCEPT !.commands = condenseStackTops(@)]

\* What optimizeChunkInProgram returns when its loop is left.
FuseResult(originalChunk, fused) ==
    IF fused.commands = << >> THEN originalChunk
    ELSE [fused EXCEPT !.commands = condenseStackTops(@)]

\* ------------------------------------------------------------------------
\* generateCodeForChunk: the blocks emitted for a chunk
\* ------------------------------------------------------------------------

PredicateTypes == {"IgnoreFirst", "IgnoreVisited"}

\* chunkFromCommand(chunk, firstIndex), firstIndex 0-based.
chunkFromCommand(c, firstIndex) ==
    [commands |-> SubSeq(c.commands, firstIndex + 1, Len(c.commands)),
     line |-> c.line, col |-> ColPlus(c.col, firstIndex), nextChunk |-> Nullopt]

\* An end of generateCodeForChunk that never stores to the visited flag.
Terminator_NeverStores(c, setVisited) ==
    [kind |-> "br", setVisited |-> FALSE, target |-> c.nextChunk]

\* An end of generateCodeForChunk that stores to the visited flag on every
\* path.
Terminator_AlwaysStores(c, setVisited) ==
    [kind |-> "br", setVisited |-> TRUE, target |-> c.nextChunk]

\* The end of generateCodeForChunk: the store to the visited flag and the
\* branch to the known next chunk or to the stack-jump block.
Terminator(c, setVisited) ==
    [kind |-> "br", setVisited |-> setVisited, target |-> c.nextChunk]

\* A generateCodeForChunk without the test for a predicate in the last
\* position: the predicate splits the block into two empty sub-chunks.
RECURSIVE GenerateFrom_NoLastTest(_, _, _, _)
GenerateFrom_NoLastTest(c, k, ops, setVisited) ==
    IF k > Len(c.commands)
    THEN [ops |-> ops, term |-> Terminator(c, setVisited)]
    ELSE LET command == c.commands[k]
             i == k - 1
         IN  IF command.type = "Exit"
             THEN [ops |-> ops, term |-> [kind |-> "ret"]]
             ELSE IF command.type = "Jump"
             THEN [ops |-> ops, term |-> Terminator(c, setVisited)]
             ELSE IF command.type \in PredicateTypes
             THEN LET nextChunk == chunkFromCommand(c, i + 1)
                      skipChunk == chunkFromCommand(c, i + 2)
                      visitedChunk == IF command.type = "IgnoreVisited"
                                      THEN skipChunk ELSE nextChunk
                      firstChunk == IF command.type = "IgnoreVisited"
                                    THEN nextChunk ELSE skipChunk
                  IN  [ops |-> ops,
                       term |-> [kind |-> "condbr",
                                 col |-> ColPlus(c.col, i),
                                 visitedBlock |->
                                     GenerateFrom_NoLastTest(visitedChunk, 1, << >>, FALSE),
                                 firstBlock |->
                                     GenerateFrom_NoLastTest(firstChunk, 1, << >>, TRUE)]]
             ELSE GenerateFrom_NoLastTest(c, k + 1,
                               Append(ops, [command |-> command, col |-> ColPlus(c.col, i)]),
                               setVisited)

\* The block generated for the commands of c from position k (1-based) on,
\* ops being the straight-line code emitted so far: each op is the command
\* and the source column it came from.
RECURSIVE GenerateFrom(_, _, _, _)
GenerateFrom(c, k, ops, setVisited) ==
    IF k > Len(c.commands)
    THEN [ops |-> ops, term |-> Terminator(c, setVisited)]
    ELSE LET command == c.commands[k]
             i == k - 1
         IN  IF command.type = "Exit"
             THEN [ops |-> ops, term |-> [kind |-> "ret"]]
             ELSE IF command.type = "Jump"
             THEN [ops |-> ops, term |-> Terminator(c, setVisited)]
             ELSE IF command.type \in PredicateTypes /\ i # Len(c.commands) - 1
             THEN LET nextChunk == chunkFromCommand(c, i + 1)
                      skipChunk == chunkFromCommand(c, i + 2)
                      visitedChunk == IF command.type = "IgnoreVisited"
                                      THEN skipChunk ELSE nextChunk
                      firstChunk == IF command.type = "IgnoreVisited"
                                    THEN nextChunk ELSE skipChunk
                  IN  [ops |-> ops,
                       term |-> [kind |-> "condbr",
                                 col |-> ColPlus(c.col, i),
                                 visitedBlock |-> GenerateFrom(visitedChunk, 1, << >>, FALSE),
                                 firstBlock |-> GenerateFrom(firstChunk, 1, << >>, TRUE)]]
             ELSE GenerateFrom(c, k + 1,
                               Append(ops, [command |-> command, col |-> ColPlus(c.col, i)]),
                               setVisited)

generateCodeForChunk(c, setVisited) == GenerateFrom(c, 1, << >>, setVisited)

\* The subscripts with which the code generated for a block reads the table
\* of chunk blocks (chunks[*knownJump]).
RECURSIVE KnownJumps(_)
KnownJumps(block) ==
    IF block.term.kind = "br"
    THEN (IF HasValue(block.term.target) THEN {Deref(block.term.target)} ELSE {})
    ELSE IF block.term.kind = "condbr"
    THEN KnownJumps(block.term.visitedBlock) \cup KnownJumps(block.term.firstBlock)
    ELSE {}

\* ------------------------------------------------------------------------
\* main: parse result -> optimizeChunks -> optimizeProgram -> generateCode
\* ------------------------------------------------------------------------

\* The largest program tried, in chunks.
MaxChunks == 3

\* The largest -O level tried.
MaxLevel == 2

\* The source chunks programs are built from.
ChunkLibrary ==
    { Cmds(<<"Nop", "Nop", "Nop", "Nop", "Nop">>),
      Cmds(<<"Inc", "Nop", "Nop", "Nop", "Nop">>),
      Cmds(<<"Dec", "Nop", "Jump", "Exit", "Nop">>),
      Cmds(<<"Dup", "Inc", "Nop", "Nop", "Nop">>),
      Cmds(<<"Input", "Output", "Nop", "Nop", "Nop">>),
      Cmds(<<"Dec", "Dec", "Nop", "Nop", "Nop">>),
      Cmds(<<"Nop", "IgnoreFirst", "Inc", "Exit", "Nop">>) }

\* What the parser returns for n chunks written on one line.
Programs(n) ==
    { [k \in 1 .. n |-> Chunk(f[k], 1, 1 + (k - 1) * (COMMANDS_PER_CHUNK + 1))] :
        f \in [1 .. n -> ChunkLibrary] }

\* What a read past the end of the chunk vector may find.
GarbageChunks ==
    { [DefaultChunk EXCEPT !.nextChunk = Some(U(0))],
      [DefaultChunk EXCEPT !.commands = Cmds(<<"Exit">>)] }

\* struct ErrorMsg
ErrorMsg(msg, line, col) == [msg |-> msg, line |-> line, col |-> col]

\* A line of output: its fixed text and what is inserted into it.
Line(text, line, col, msg) == [text |-> text, line |-> line, col |-> col, msg |-> msg]

PlainLine(text) == Line(text, 0, 0, << >>)

VersionLine == PlainLine("xrfc")

\* printParserErrors: the line written for an error
ErrorLine(error) == Line("Error on line, column", error.line, error.col, error.msg)

QuitLine == PlainLine("Too many errors, quitting.")

\* A limit test that counts the error at hand.
TooManyErrors_PreIncrement(count) == count + 1 = 100

\* printParserErrors: numErrors++ == 100
TooManyErrors(count) == count = 100

\* The errors of a file of n lines with one wrong run each, by turns too
\* long and too short (first selects which comes first).
ErrorList(n, first) ==
    [k \in 1 .. n |->
        ErrorMsg(IF (k + first) % 2 = 0
                 THEN <<"Chunk", "has", "too", "many", "commands", ".">>
                 ELSE <<"Chunk", "doesn't", "have", "enough", "commands", ".">>,
                 k, 1)]

\* What parseXrf can return to main.
ParseResults ==
    { [kind |-> "chunks", value |-> cs] :
        cs \in UNION { Programs(n) : n \in 0 .. MaxChunks } }
    \cup { [kind |-> "errors", value |-> ErrorList(n, 1)] : n \in 1 .. 2 }

ProgInit ==
    /\ printVersion \in BOOLEAN
    /\ filename \in {"", "prog.xrf"}
    /\ outFilename \in {"", "prog.ll"}
    /\ optimizationLevel \in 0 .. MaxLevel
    /\ file = "closed"
    /\ parsed = Nullopt
    /\ outFile = "closed"
    /\ cout = << >>
    /\ cerr = << >>
    /\ numErrors = 0
    /\ exitCode = Nullopt
    /\ chunks = << >>
    /\ pcMain = "main"
    /\ optimizedProgram = << >>
    /\ fuseIndex = U(0)
    /\ toOptimize = Nullopt
    /\ optimizedChunk = Nullopt
    /\ visited = {}
    /\ blocks = << >>
    /\ tableReads = {}
    /\ OptIdle /\ RingIdle /\ VisitIdle /\ ParseIdle /\ RunIdle

\* What main leaves alone until the chunks are parsed.
pipelineVars == <<chunks, fuseVars, genVars>>

\* main: --version
MainVersion ==
    /\ pcMain = "main"
    /\ printVersion
    /\ cout' = Append(cout, VersionLine)
    /\ exitCode' = Some(0)
    /\ pcMain' = "exited"
    /\ UNCHANGED <<optimizationLevel, pipelineVars, printVersion, filename,
                   outFilename, file, parsed, outFile, cerr, numErrors, notProg>>

\* main: no file argument
MainNoFilename ==
    /\ pcMain = "main"
    /\ ~printVersion
    /\ filename = ""
    /\ cerr' = Append(cerr, PlainLine("Please provide an XRF file to compile."))
    /\ exitCode' = Some(1)
    /\ pcMain' = "exited"
    /\ UNCHANGED <<optimizationLevel, pipelineVars, printVersion, filename,
                   outFilename, file, parsed, outFile, cout, numErrors, notProg>>

\* main: the file cannot be opened
MainOpenFails ==
    /\ pcMain = "main"
    /\ ~printVersion
    /\ filename # ""
    /\ file' = "failed"
    /\ cerr' = Append(cerr, PlainLine("Unable to open"))
    /\ exitCode' = Some(1)
    /\ pcMain' = "exited"
    /\ UNCHANGED <<optimizationLevel, pipelineVars, printVersion, filename,
                   outFilename, parsed, outFile, cout, numErrors, notProg>>

\* main: the file is open, parseXrf returns
MainParse ==
    /\ pcMain = "main"
    /\ ~printVersion
    /\ filename # ""
    /\ file' = "open"
    /\ parsed' \in {Some(r) : r \in ParseResults}
    /\ pcMain' = "parseXrf"
    /\ UNCHANGED <<optimizationLevel, pipelineVars, printVersion, filename,
                   outFilename, outFile, cout, cerr, numErrors, exitCode, notProg>>

\* main: the parse gave errors, printParserErrors is called
MainParseErrors ==
    /\ pcMain = "parseXrf"
    /\ Deref(parsed).kind = "errors"
    /\ numErrors' = 0
    /\ pcMain' = "printParserErrors"
    /\ UNCHANGED <<optimizationLevel, pipelineVars, printVersion, filename,
                   outFilename, file, parsed, outFile, cout, cerr, exitCode,
                   notProg>>

\* printParserErrors: one round of the loop; at the limit it writes the
\* quitting line and returns, and main returns 2
PrintError ==
    /\ pcMain = "printParserErrors"
    /\ numErrors < Len(Deref(parsed).value)
    /\ numErrors' = numErrors + 1
    /\ IF TooManyErrors(numErrors)
       THEN /\ cerr' = Append(cerr, QuitLine)
            /\ exitCode' = Some(2)
            /\ pcMain' = "exited"
       ELSE /\ cerr' = Append(cerr, ErrorLine(Deref(parsed).value[numErrors + 1]))
            /\ UNCHANGED <<exitCode, pcMain>>
    /\ UNCHANGED <<optimizationLevel, pipelineVars, printVersion, filename,
                   outFilename, file, parsed, outFile, cout, notProg>>

\* The end of the error list with main going on to the next statement.
PrintReturn_GoesOn ==
    /\ pcMain = "printParserErrors"
    /\ numErrors = Len(Deref(parsed).value)
    /\ pcMain' = "parsed"
    /\ UNCHANGED <<optimizationLevel, pipelineVars, printVersion, filename,
                   outFilename, file, parsed, outFile, cout, cerr, numErrors,
                   exitCode, notProg>>

\* printParserErrors: the loop is over; main returns 2
PrintReturn ==
    /\ pcMain = "printParserErrors"
    /\ numErrors = Len(Deref(parsed).value)
    /\ exitCode' = Some(2)
    /\ pcMain' = "exited"
    /\ UNCHANGED <<optimizationLevel, pipelineVars, printVersion, filename,
                   outFilename, file, parsed, outFile, cout, cerr, numErrors,
                   notProg>>

\* main: auto chunks = std::get<std::vector<xrf::Chunk>>(result)
MainChunks ==
    /\ pcMain = "parseXrf"
    /\ Deref(parsed).kind = "chunks"
    /\ chunks' = Deref(parsed).value
    /\ pcMain' = "parsed"
    /\ UNCHANGED <<optimizationLevel, fuseVars, genVars, cliVars, notProg>>

\* main, optimizationLevel == 0
MainNoOptimization ==
    /\ pcMain = "parsed"
    /\ ~(optimizationLevel > 0)
    /\ pcMain' = "generate"
    /\ UNCHANGED <<optimizationLevel, chunks, fuseVars, genVars, cliVars, notProg>>

\* main with optimizeProgram called at every level above 0.
MainOptimizeChunks_AlwaysProgram ==
    /\ pcMain = "parsed"
    /\ optimizationLevel > 0
    /\ chunks' = optimizeChunks(chunks)
    /\ pcMain' = "optimizeProgram"
    /\ UNCHANGED <<optimizationLevel, fuseVars, genVars, cliVars, notProg>>

\* main: chunks = optimizeChunks(chunks)
MainOptimizeChunks ==
    /\ pcMain = "parsed"
    /\ optimizationLevel > 0
    /\ chunks' = optimizeChunks(chunks)
    /\ pcMain' = IF optimizationLevel > 1 THEN "optimizeProgram" ELSE "generate"
    /\ UNCHANGED <<optimizationLevel, fuseVars, genVars, cliVars, notProg>>

\* optimizeProgram: the call optimizeChunkInProgram(chunks, i), up to its loop
ProgramCall ==
    /\ pcMain = "optimizeProgram"
    /\ Len(optimizedProgram) < Len(chunks)
    /\ fuseIndex' = U(Len(optimizedProgram))
    /\ toOptimize' = Some(chunks[Len(optimizedProgram) + 1])
    /\ optimizedChunk' = Some(DefaultChunk)
    /\ visited' = {}
    /\ pcMain' = "fuse"
    /\ UNCHANGED <<optimizationLevel, chunks, optimizedProgram, genVars, cliVars, notProg>>

\* optimizeProgram: the loop is over, the vector is returned to main
ProgramReturn ==
    /\ pcMain = "optimizeProgram"
    /\ Len(optimizedProgram) = Len(chunks)
    /\ chunks' = optimizedProgram
    /\ pcMain' = "generate"
    /\ UNCHANGED <<optimizationLevel, fuseVars, genVars, cliVars, notProg>>

originalChunk == chunks[Len(optimizedProgram) + 1]

Fusing ==
    /\ pcMain = "fuse"
    /\ chunkOnlyHas(Deref(toOptimize), FusableTypes)

\* A round that inserts the commands at the front of the accumulated ones.
Accumulated_Prepends ==
    [Deref(optimizedChunk) EXCEPT
        !.commands = Deref(toOptimize).commands \o @,
        !.nextChunk = Deref(toOptimize).nextChunk]

\* The chunk accumulated by one more round of the while loop.
Accumulated ==
    [Deref(optimizedChunk) EXCEPT
        !.commands = @ \o Deref(toOptimize).commands,
        !.nextChunk = Deref(toOptimize).nextChunk]

\* optimizeChunkInProgram: one round of the while loop
FuseIterate ==
    /\ Fusing
    /\ fuseIndex \notin visited
    /\ HasValue(Accumulated.nextChunk)
    /\ InRange(Deref(Accumulated.nextChunk), Len(chunks))
    /\ visited' = visited \cup {fuseIndex}
    /\ optimizedChunk' = Some(Accumulated)
    /\ fuseIndex' = Deref(Accumulated.nextChunk)
    /\ toOptimize' = Some(At(chunks, Deref(Accumulated.nextChunk)))
    /\ UNCHANGED <<mainVars, optimizedProgram, genVars, cliVars, notProg>>

\* optimizeChunkInProgram: a round of the while loop whose chunks[index] is
\* past the end of the vector (or whose nextChunk is empty): undefined
\* behaviour, the process dies or the loop goes on with what the read found.
FuseReadOutside ==
    /\ Fusing
    /\ fuseIndex \notin visited
    /\ ~(/\ HasValue(Accumulated.nextChunk)
         /\ InRange(Deref(Accumulated.nextChunk), Len(chunks)))
    /\ \/ /\ pcMain' = "crashed"
          /\ UNCHANGED <<fuseVars>>
       \/ /\ pcMain' = pcMain
          /\ visited' = visited \cup {fuseIndex}
          /\ optimizedChunk' = Some(Accumulated)
          /\ fuseIndex' = IF HasValue(Accumulated.nextChunk)
                          THEN Deref(Accumulated.nextChunk) ELSE U(0)
          /\ toOptimize' \in {Some(g) : g \in GarbageChunks}
          /\ UNCHANGED optimizedProgram
    /\ UNCHANGED <<optimizationLevel, chunks, genVars, cliVars, notProg>>

\* A visited index that ends the loop like a chunk that is not fusable.
FuseLoopDetected_ReturnsFused ==
    /\ Fusing
    /\ fuseIndex \in visited
    /\ optimizedProgram' =
           Append(optimizedProgram, FuseResult(originalChunk, Deref(optimizedChunk)))
    /\ pcMain' = "optimizeProgram"
    /\ UNCHANGED <<optimizationLevel, chunks, fuseIndex, toOptimize,
                   optimizedChunk, visited, genVars, cliVars, notProg>>

\* optimizeChunkInProgram: the loop came back to a visited index
FuseLoopDetected ==
    /\ Fusing
    /\ fuseIndex \in visited
    /\ optimizedProgram' = Append(optimizedProgram, originalChunk)
    /\ pcMain' = "optimizeProgram"
    /\ UNCHANGED <<optimizationLevel, chunks, fuseIndex, toOptimize,
                   optimizedChunk, visited, genVars, cliVars, notProg>>

\* optimizeChunkInProgram: the loop ends at a chunk that is not fusable
FuseReturn ==
    /\ pcMain = "fuse"
    /\ ~chunkOnlyHas(Deref(toOptimize), FusableTypes)
    /\ optimizedProgram' =
           Append(optimizedProgram, FuseResult(originalChunk, Deref(optimizedChunk)))
    /\ pcMain' = "optimizeProgram"
    /\ UNCHANGED <<optimizationLevel, chunks, fuseIndex, toOptimize,
                   optimizedChunk, visited, genVars, cliVars, notProg>>

\* generateChunks: generateCodeForChunk for the next chunk
GenerateChunk ==
    /\ pcMain = "generate"
    /\ Len(blocks) < Len(chunks)
    /\ LET block == generateCodeForChunk(chunks[Len(blocks) + 1], FALSE)
       IN  /\ blocks' = Append(blocks, block)
           /\ tableReads' = tableReads \cup KnownJumps(block)
    /\ UNCHANGED <<mainVars, fuseVars, cliVars, notProg>>

\* generateChunks: the branch from the start block to chunkStarts[0]
GenerateStart ==
    /\ pcMain = "generate"
    /\ Len(blocks) = Len(chunks)
    /\ tableReads' = tableReads \cup {U(0)}
    /\ pcMain' = "generated"
    /\ UNCHANGED <<optimizationLevel, chunks, fuseVars, blocks, cliVars, notProg>>

\* main: the output file cannot be opened
MainOutputFails ==
    /\ pcMain = "generated"
    /\ outFilename' = IF outFilename = "" THEN "out.ll" ELSE outFilename
    /\ outFile' = "failed"
    /\ cerr' = Append(cerr, PlainLine("Unable to write to"))
    /\ exitCode' = Some(3)
    /\ pcMain' = "exited"
    /\ UNCHANGED <<optimizationLevel, pipelineVars, printVersion, filename,
                   file, parsed, cout, numErrors, notProg>>

\* main: module->print(outFile, nullptr)
MainWrite ==
    /\ pcMain = "generated"
    /\ outFilename' = IF outFilename = "" THEN "out.ll" ELSE outFilename
    /\ outFile' = "written"
    /\ exitCode' = Some(0)
    /\ pcMain' = "exited"
    /\ UNCHANGED <<optimizationLevel, pipelineVars, printVersion, filename,
                   file, parsed, cout, cerr, numErrors, notProg>>

ProgNext ==
    \/ MainVersion
    \/ MainNoFilename
    \/ MainOpenFails
    \/ MainParse
    \/ MainParseErrors
    \/ PrintError
    \/ PrintReturn
    \/ MainChunks
    \/ MainNoOptimization
    \/ MainOptimizeChunks
    \/ ProgramCall
    \/ ProgramReturn
    \/ FuseIterate
    \/ FuseReadOutside
    \/ FuseLoopDetected
    \/ FuseReturn
    \/ GenerateChunk
    \/ GenerateStart
    \/ MainOutputFails
    \/ MainWrite

SpecProg == ProgInit /\ [][ProgNext]_vars

\* ------------------------------------------------------------------------
\* Claims about the pipeline (SpecProg)
\* ------------------------------------------------------------------------

\* chunks is the value optimizeChunks returned.
AfterOptimizeChunks ==
    \/ pcMain \in {"optimizeProgram", "fuse", "crashed"}
    \/ (pcMain = "generate" /\ optimizationLevel = 1)

\* C3: in the output of optimizeChunks for a program of n chunks every
\* chunk's next is unset or a value in 0..n-1.
C3_NextIsChunkIndex ==
    AfterOptimizeChunks =>
        \A k \in 1 .. Len(chunks) :
            \/ ~HasValue(chunks[k].nextChunk)
            \/ InRange(Deref(chunks[k].nextChunk), Len(chunks))

\* C4: optimizeProgram terminates on any chunk list and returns as many
\* chunks as it was given: it never dies, its loop only visits indices of
\* the program (so the visited set ends it within n rounds), and the vector
\* it fills never outgrows its input.
C4_FusionTerminates ==
    /\ pcMain # "crashed"
    /\ pcMain = "fuse" =>
           /\ \A w \in visited \cup {fuseIndex} : InRange(w, Len(chunks))
           /\ Len(optimizedProgram) < Len(chunks)
    /\ pcMain = "optimizeProgram" => Len(optimizedProgram) <= Len(chunks)

SetTopPositions(commands) ==
    {k \in 1 .. Len(commands) : commands[k].type = "SetTop"}

Max(S) == CHOOSE x \in S : \A y \in S : y <= x

\* commands without its SetTops, except the right-most one.
KeepLastSetTop(commands) ==
    LET tops == SetTopPositions(commands)
        keep == {k \in 1 .. Len(commands) : k \notin tops \/ k = Max(tops)}
        pos(j) == CHOOSE k \in keep : Cardinality({x \in keep : x < k}) = j - 1
    IN  [j \in 1 .. Cardinality(keep) |-> commands[pos(j)]]

\* optimizeChunkInProgram has just returned a fused chunk.
FusedChunkReturned ==
    /\ pcMain = "optimizeProgram"
    /\ optimizedProgram # << >>
    /\ HasValue(toOptimize)
    /\ ~chunkOnlyHas(Deref(toOptimize), FusableTypes)
    /\ Deref(optimizedChunk).commands # << >>

\* C5: every chunk the pipeline emits holds at most one SetTop; a fused
\* chunk is the concatenation of the chain's commands with every SetTop but
\* the right-most removed, the other commands in their order.
C5_OneSetTop ==
    /\ pcMain \in {"generate", "generated"} =>
           \A k \in 1 .. Len(chunks) :
               Cardinality(SetTopPositions(chunks[k].commands)) <= 1
    /\ FusedChunkReturned =>
           optimizedProgram[Len(optimizedProgram)].commands
               = KeepLastSetTop(Deref(optimizedChunk).commands)

\* A fused chunk was returned whose chain held several SetTops and another
\* command.
C5_Witness ==
    /\ FusedChunkReturned
    /\ Cardinality(SetTopPositions(Deref(optimizedChunk).commands)) >= 2
    /\ \E k \in 1 .. Len(Deref(optimizedChunk).commands) :
           /\ Deref(optimizedChunk).commands[k].type # "SetTop"
           /\ \E j \in SetTopPositions(Deref(optimizedChunk).commands) : j > k

\* C9: generateCode never reads outside the table of per-chunk blocks,
\* whatever chunk list the earlier stages hand over (the empty list and
\* chunks with a next value included).
C9_GeneratorReadsInsideTable ==
    \A w \in tableReads : InRange(w, Len(chunks))

\* ------------------------------------------------------------------------
\* The emitted program's data under any sequence of lowered commands
\* ------------------------------------------------------------------------

\* The longest command sequence tried.
MaxRingSteps == 4

\* What a load of a never-stored cell of the undef-initialised array yields.
UndefValues == {U(0), U(7)}

RingEnvs == [undef : UndefValues, inp : InputValues]

\* The operand of the extended commands.
RingValue == U(5)

\* The commands of the abstract stack, and whether a command keeps the
\* abstract stack within one and fewer than STACK_SIZE elements.
AbstractTypes == {"Input", "Pop", "Dup", "Swap", "Add", "Sub", "Bottom"}

Front(s) == SubSeq(s, 1, Len(s) - 1)

Last(s) == s[Len(s)]

AbsDiff(a, b) == IF Ugt32(a, b) THEN Sub32(a, b) ELSE Sub32(b, a)

AbstractDefined(s, type) ==
    /\ type \in AbstractTypes
    /\ type \in {"Pop", "Swap", "Add", "Sub"} => Len(s) >= 2
    /\ type \in {"Input", "Dup"} => Len(s) + 1 < STACK_SIZE

\* The abstract stack (bottom first) after a command.
AbstractStep(s, type, inp) ==
    CASE type = "Input" -> Append(s, IF inp = I32(-1) THEN U(0) ELSE inp)
      [] type = "Pop" -> Front(s)
      [] type = "Dup" -> Append(s, Last(s))
      [] type = "Swap" -> Append(Append(Front(Front(s)), Last(s)), Last(Front(s)))
      [] type = "Add" -> Append(Front(Front(s)), Add32(Last(s), Last(Front(s))))
      [] type = "Sub" -> Append(Front(Front(s)), AbsDiff(Last(s), Last(Front(s))))
      [] type = "Bottom" -> <<Last(s)>> \o Front(s)

\* main() of the emitted program has run its start block.
RingInit ==
    /\ machine = StartMachine
    /\ logical = <<U(0)>>
    /\ tracked = TRUE
    /\ ringSteps = 0
    /\ OptIdle /\ ProgIdle /\ VisitIdle /\ ParseIdle /\ RunIdle

\* The code emitted for one command runs.
RingCommand(command) ==
    /\ ringSteps < MaxRingSteps
    /\ \E env \in RingEnvs :
         /\ machine' = ExecCommand(machine, command, env)
         /\ IF tracked /\ AbstractDefined(logical, command.type)
            THEN /\ tracked' = TRUE
                 /\ logical' = AbstractStep(logical, command.type, env.inp)
            ELSE /\ tracked' = FALSE
                 /\ logical' = << >>
    /\ ringSteps' = ringSteps + 1
    /\ UNCHANGED notRing

RingAdd == RingCommand(Command("Add"))

RingAddToSecond == RingCommand(CommandVal("AddToSecond", RingValue))

RingBottom == RingCommand(Command("Bottom"))

RingDec == RingCommand(Command("Dec"))

RingDup == RingCommand(Command("Dup"))

RingInc == RingCommand(Command("Inc"))

RingInput == RingCommand(Command("Input"))

RingMultiplySecond == RingCommand(CommandVal("MultiplySecond", RingValue))

RingOutput == RingCommand(Command("Output"))

RingPop == RingCommand(Command("Pop"))

RingPopSecondValue == RingCommand(Command("PopSecondValue"))

RingPushSecondValue == RingCommand(CommandVal("PushSecondValue", RingValue))

RingPushValueToBottom == RingCommand(CommandVal("PushValueToBottom", RingValue))

RingSetSecondValue == RingCommand(CommandVal("SetSecondValue", RingValue))

RingSetTop == RingCommand(CommandVal("SetTop", RingValue))

RingSub == RingCommand(Command("Sub"))

RingSwap == RingCommand(Command("Swap"))

RingNext ==
    \/ RingAdd
    \/ RingAddToSecond
    \/ RingBottom
    \/ RingDec
    \/ RingDup
    \/ RingInc
    \/ RingInput
    \/ RingMultiplySecond
    \/ RingOutput
    \/ RingPop
    \/ RingPopSecondValue
    \/ RingPushSecondValue
    \/ RingPushValueToBottom
    \/ RingSetSecondValue
    \/ RingSetTop
    \/ RingSub
    \/ RingSwap

SpecRing == RingInit /\ [][RingNext]_vars

\* ------------------------------------------------------------------------
\* Claims about the emitted program's data (SpecRing)
\* ------------------------------------------------------------------------

\* C6: after any sequence of lowered commands, underflow and overflow
\* included, stack_top and stack_bottom are in 0..65535 and every array
\* cell address the last command used is inside the array.
C6_IndicesMasked ==
    /\ machine.stackTop \in 0 .. STACK_MASK
    /\ machine.stackBottom \in 0 .. STACK_MASK
    /\ machine.gep \subseteq 0 .. STACK_SIZE - 1

\* stack_top went below 0 to the last cell and a push has just stored into
\* that last cell and wrapped stack_top to 0, while stack_bottom moved too.
C6_Witness ==
    /\ ringSteps >= 3
    /\ machine.stackTop = 0
    /\ STACK_MASK \in machine.gep
    /\ machine.stackBottom < STACK_SIZE - 1

\* C7: as long as the commands are Input, Pop, Dup, Swap, Add, Sub and
\* Bottom and keep one to 65535 elements, the ring's logical contents are
\* those of the abstract stack (Bottom moves the top below every other
\* element; on one element it changes nothing).
C7_RingIsStackAndQueue ==
    tracked => Contents(machine) = logical

\* ------------------------------------------------------------------------
\* The emitted program of a one-chunk source, run block by block
\* ------------------------------------------------------------------------

\* The most entries into the chunk's block followed.
MaxVisits == 3

\* The commands the chunks tried are written with.
VisitTypes ==
    {"IgnoreFirst", "IgnoreVisited", "Inc", "Dec", "Nop", "Jump", "Exit"}

VisitChunks ==
    { Chunk([k \in 1 .. COMMANDS_PER_CHUNK |-> Command(types[k])], 1, 1) :
        types \in [1 .. COMMANDS_PER_CHUNK -> VisitTypes] }

\* The emitted main() is called: globals are initialised, visited-0 is 0.
VisitInit ==
    /\ visitChunk \in VisitChunks
    /\ machine = StartMachine
    /\ logical = << >>
    /\ tracked = FALSE
    /\ ringSteps = 0
    /\ chunkBlock = Nullopt
    /\ opIndex = 0
    /\ visitedFlag = FALSE
    /\ visitCount = 0
    /\ executed = << >>
    /\ pcVisit = "start"
    /\ OptIdle /\ ProgIdle /\ ParseIdle /\ RunIdle

\* Control reaches block chunk0, the code generateChunks emitted for the
\* chunk (setVisited defaults to false).
Entered ==
    /\ visitCount < MaxVisits
    /\ chunkBlock' = generateCodeForChunk(visitChunk, FALSE)
    /\ opIndex' = 1
    /\ executed' = << >>
    /\ visitCount' = visitCount + 1
    /\ pcVisit' = "block"

\* start: br chunkStarts[0]; or the br to a known next chunk
VisitStart ==
    /\ pcVisit \in {"start", "chunk"}
    /\ Entered
    /\ UNCHANGED <<visitChunk, visitedFlag, ringVars, notVisit>>

\* The code of one command of the current block
VisitOp ==
    /\ pcVisit = "block"
    /\ opIndex <= Len(chunkBlock.ops)
    /\ \E env \in RingEnvs :
         machine' = ExecCommand(machine, chunkBlock.ops[opIndex].command, env)
    /\ executed' = Append(executed, chunkBlock.ops[opIndex].col - visitChunk.col)
    /\ opIndex' = opIndex + 1
    /\ UNCHANGED <<visitChunk, chunkBlock, visitedFlag, visitCount, pcVisit,
                   logical, tracked, ringSteps, notVisit>>

AtTerminator(kind) ==
    /\ pcVisit = "block"
    /\ opIndex > Len(chunkBlock.ops)
    /\ chunkBlock.term.kind = kind

\* generateVisitJump: load visited-0; br hasVisited, visitedBlock, firstBlock
VisitCondBr ==
    /\ AtTerminator("condbr")
    /\ executed' = Append(executed, chunkBlock.term.col - visitChunk.col)
    /\ chunkBlock' = IF visitedFlag THEN chunkBlock.term.visitedBlock
                     ELSE chunkBlock.term.firstBlock
    /\ opIndex' = 1
    /\ UNCHANGED <<visitChunk, visitedFlag, visitCount, pcVisit, ringVars, notVisit>>

\* The end of a block: store 1 to visited-0 if setVisited, then br.
VisitBr ==
    /\ AtTerminator("br")
    /\ visitedFlag' = (visitedFlag \/ chunkBlock.term.setVisited)
    /\ pcVisit' = IF HasValue(chunkBlock.term.target) THEN "chunk" ELSE "stack-jump"
    /\ UNCHANGED <<visitChunk, chunkBlock, opIndex, visitCount, executed,
                   ringVars, notVisit>>

\* Exit: ret i32 0
VisitRet ==
    /\ AtTerminator("ret")
    /\ pcVisit' = "exited"
    /\ UNCHANGED <<visitChunk, chunkBlock, opIndex, visitedFlag, visitCount,
                   executed, ringVars, notVisit>>

\* stack-jump: switch top_value, case 0 -> chunk0
StackJump ==
    /\ pcVisit = "stack-jump"
    /\ InRange(machine.topValue, 1)
    /\ Entered
    /\ UNCHANGED <<visitChunk, visitedFlag, ringVars, notVisit>>

\* stack-jump: the default case is a block that holds only `unreachable'.
\* Executing it is undefined: the process dies, or control lands on a block
\* of main.
StackJumpError ==
    /\ pcVisit = "stack-jump"
    /\ ~InRange(machine.topValue, 1)
    /\ \/ /\ pcVisit' = "crashed"
          /\ UNCHANGED <<chunkBlock, opIndex, visitCount, executed>>
       \/ Entered
    /\ UNCHANGED <<visitChunk, visitedFlag, ringVars, notVisit>>

VisitNext ==
    \/ VisitStart
    \/ VisitOp
    \/ VisitCondBr
    \/ VisitBr
    \/ VisitRet
    \/ StackJump
    \/ StackJumpError

SpecVisit == VisitInit /\ [][VisitNext]_vars

\* ------------------------------------------------------------------------
\* Claims about the predicate commands (SpecVisit)
\* ------------------------------------------------------------------------

\* A predicate command skips the command after it.
Skips(type, first) ==
    \/ type = "IgnoreFirst" /\ first
    \/ type = "IgnoreVisited" /\ ~first

LivePredicate(commands, pos) ==
    /\ commands[pos + 1].type \in PredicateTypes
    /\ pos # Len(commands) - 1

\* The positions (0-based) of the commands an execution of the chunk goes
\* through from position pos on, by the rule of the predicate commands.
RECURSIVE PathFrom(_, _, _)
PathFrom(commands, pos, first) ==
    IF pos >= Len(commands) \/ commands[pos + 1].type \in {"Exit", "Jump"}
    THEN << >>
    ELSE IF LivePredicate(commands, pos) /\ Skips(commands[pos + 1].type, first)
    THEN <<pos>> \o PathFrom(commands, pos + 2, first)
    ELSE <<pos>> \o PathFrom(commands, pos + 1, first)

\* How that execution leaves the chunk.
RECURSIVE EndFrom(_, _, _)
EndFrom(commands, pos, first) ==
    IF pos >= Len(commands) \/ commands[pos + 1].type = "Jump" THEN "stack-jump"
    ELSE IF commands[pos + 1].type = "Exit" THEN "exited"
    ELSE IF LivePredicate(commands, pos) /\ Skips(commands[pos + 1].type, first)
    THEN EndFrom(commands, pos + 2, first)
    ELSE EndFrom(commands, pos + 1, first)

IsPrefix(a, b) == Len(a) <= Len(b) /\ a = SubSeq(b, 1, Len(a))

\* C8: in the first execution of a chunk IgnoreFirst at position p (not the
\* last) is followed by p+2 and IgnoreVisited by p+1, in every later
\* execution IgnoreFirst by p+1 and IgnoreVisited by p+2, predicates in the
\* continued suffix included: the commands run and the way the chunk is
\* left are those of that rule.
C8_PredicateSkips ==
    pcVisit \in {"block", "stack-jump", "exited"} =>
        /\ IsPrefix(executed, PathFrom(visitChunk.commands, 0, visitCount = 1))
        /\ pcVisit # "block" =>
               /\ executed = PathFrom(visitChunk.commands, 0, visitCount = 1)
               /\ pcVisit = EndFrom(visitChunk.commands, 0, visitCount = 1)

LivePredicatesRun(type) ==
    { j \in 1 .. Len(executed) :
        /\ LivePredicate(visitChunk.commands, executed[j])
        /\ visitChunk.commands[executed[j] + 1].type = type }

\* A later execution has ended in which an IgnoreFirst and an IgnoreVisited
\* were both run and a command was skipped.
C8_Witness ==
    /\ pcVisit = "stack-jump"
    /\ visitCount >= 2
    /\ LivePredicatesRun("IgnoreFirst") # {}
    /\ LivePredicatesRun("IgnoreVisited") # {}
    /\ \E j \in 1 .. Len(executed) - 1 : executed[j + 1] = executed[j] + 2

\* ------------------------------------------------------------------------
\* FileReader and the parser
\* ------------------------------------------------------------------------

\* The longest file tried, in characters.
MaxFileLen == 6

\* The longest file tried that is written with PlainChars only.
MaxPlainLen == 11

\* Characters by their code: '0', 'F', 'G', ' ', '\n' and a byte of a
\* UTF-8 sequence.
Chars == {48, 70, 71, 32, 10, 233}

\* '0', ' ' and '\n': the characters of the longer files.
PlainChars == {48, 32, 10}

\* The file may go on with the character c.  The longer files hold no
\* character outside 0..127, so they are tried with one isspace table only.
FileHolds(c) ==
    \/ Len(fileRead) < MaxFileLen
    \/ /\ Len(fileRead) < MaxPlainLen
       /\ ~highIsSpace
       /\ c \in PlainChars
       /\ \A k \in 1 .. Len(fileRead) : fileRead[k] \in PlainChars

\* std::isspace in the "C" locale.  For a char outside 0..127 (negative
\* where char is signed) the argument is not a valid one and the result is
\* what the C library's table happens to hold.
isspace(c) == IF c > 127 THEN highIsSpace ELSE c \in {9, 10, 11, 12, 13, 32}

\* The command characters '0'..'9', 'A'..'F' of parseChunk's switch.
CommandChars == (48 .. 57) \cup (65 .. 70)

CommandTable ==
    <<"Input", "Output", "Pop", "Dup", "Swap", "Inc", "Dec", "Add",
      "IgnoreFirst", "Bottom", "Jump", "Exit", "IgnoreVisited", "Randomize",
      "Sub", "Nop">>

CommandTypeOf(c) == IF c <= 57 THEN CommandTable[c - 47] ELSE CommandTable[c - 54]

\* ErrorMsg(msg, line, col); msg is the text as the sequence of its words
\* and punctuation marks (an offending character as its code in digits).
\* FileReader::FileReader, and parseXrf up to its loop.
ParseInit ==
    /\ fileRead = << >>
    /\ fileEof = FALSE
    /\ highIsSpace \in BOOLEAN
    /\ fileLine = 1
    /\ fileCol = 0
    /\ parsedChunks = << >>
    /\ errors = << >>
    /\ current = Nullopt
    /\ result = Nullopt
    /\ pcParse = "parseXrf"
    /\ OptIdle /\ ProgIdle /\ RingIdle /\ VisitIdle /\ RunIdle

\* A read that does not reset the column at a newline.
Read_ColumnKept(c) ==
    /\ ~fileEof
    /\ FileHolds(c)
    /\ fileRead' = Append(fileRead, c)
    /\ fileLine' = IF c = 10 THEN fileLine + 1 ELSE fileLine
    /\ fileCol' = fileCol + 1
    /\ UNCHANGED <<fileEof, highIsSpace>>

\* FileReader::read returns the character c.
Read(c) ==
    /\ ~fileEof
    /\ FileHolds(c)
    /\ fileRead' = Append(fileRead, c)
    /\ fileLine' = IF c = 10 THEN fileLine + 1 ELSE fileLine
    /\ fileCol' = IF c = 10 THEN 0 ELSE fileCol + 1
    /\ UNCHANGED <<fileEof, highIsSpace>>

\* FileReader::read returns std::nullopt.
ReadFails ==
    /\ fileEof' = TRUE
    /\ UNCHANGED <<fileRead, highIsSpace, fileLine, fileCol>>

\* The body of parseChunk's loop for the character c.
SwitchCommands(commands, c) ==
    IF c \in CommandChars THEN Append(commands, Command(CommandTypeOf(c)))
    ELSE commands

SwitchErrors(errs, c, line, col) ==
    IF c \in CommandChars THEN errs
    ELSE Append(errs, ErrorMsg(<<"Invalid", "command", "character", ":", ToString(c)>>,
                             line, col))

\* A size check that lets short chunks through.
TooFewCommands_Never(c) == FALSE

TooFewCommands(c) == Len(c.commands) < COMMANDS_PER_CHUNK

\* A size check that lets long chunks through.
TooManyCommands_Never(c) == FALSE

TooManyCommands(c) == Len(c.commands) > COMMANDS_PER_CHUNK

\* A return statement that prefers the chunks that parsed.
ParseXrfResult_ChunksFirst(chunkList, errs) ==
    IF chunkList # << >> THEN [kind |-> "chunks", value |-> chunkList]
    ELSE [kind |-> "errors", value |-> errs]

\* parseXrf's return statement.
ParseXrfResult(chunkList, errs) ==
    IF errs = << >> THEN [kind |-> "chunks", value |-> chunkList]
    ELSE [kind |-> "errors", value |-> errs]

\* parseXrf's loop reads a whitespace character.
ParseSkip ==
    /\ pcParse = "parseXrf"
    /\ \E c \in Chars : Read(c) /\ isspace(c)
    /\ UNCHANGED <<parsedChunks, errors, current, result, pcParse, notParse>>

\* parseXrf's loop reads another character and calls parseChunk, which runs
\* its loop body for that character.
ParseChunkStart ==
    /\ pcParse = "parseXrf"
    /\ \E c \in Chars :
         /\ Read(c)
         /\ ~isspace(c)
         /\ current' = Some(Chunk(SwitchCommands(<< >>, c), fileLine', fileCol'))
         /\ errors' = SwitchErrors(errors, c, fileLine', fileCol')
    /\ pcParse' = "parseChunk"
    /\ UNCHANGED <<parsedChunks, result, notParse>>

\* parseChunk's loop reads a character of the chunk.
ParseChunkChar ==
    /\ pcParse = "parseChunk"
    /\ \E c \in Chars :
         /\ Read(c)
         /\ ~isspace(c)
         /\ current' = Some([Deref(current) EXCEPT
                                !.commands = SwitchCommands(@, c)])
         /\ errors' = SwitchErrors(errors, c, fileLine', fileCol')
    /\ UNCHANGED <<parsedChunks, result, pcParse, notParse>>

\* parseChunk's loop ends (whitespace or end of file): the size check.
ParseChunkEnd ==
    /\ pcParse = "parseChunk"
    /\ \/ \E c \in Chars : Read(c) /\ isspace(c)
       \/ ReadFails
    /\ IF TooFewCommands(Deref(current))
       THEN /\ errors' = Append(errors,
                  ErrorMsg(<<"Chunk", "doesn't", "have", "enough", "commands", ".">>,
                           Deref(current).line, Deref(current).col))
            /\ UNCHANGED parsedChunks
       ELSE IF TooManyCommands(Deref(current))
       THEN /\ errors' = Append(errors,
                  ErrorMsg(<<"Chunk", "has", "too", "many", "commands", ".">>,
                           Deref(current).line, Deref(current).col))
            /\ UNCHANGED parsedChunks
       ELSE /\ parsedChunks' = Append(parsedChunks, Deref(current))
            /\ UNCHANGED errors
    /\ current' = Nullopt
    /\ pcParse' = "parseXrf"
    /\ UNCHANGED <<result, notParse>>

\* parseXrf's loop ends: the errors if there are any, else the chunks.
ParseReturn ==
    /\ pcParse = "parseXrf"
    /\ ReadFails
    /\ result' = Some(ParseXrfResult(parsedChunks, errors))
    /\ pcParse' = "returned"
    /\ UNCHANGED <<parsedChunks, errors, current, notParse>>

ParseNext ==
    \/ ParseSkip
    \/ ParseChunkStart
    \/ ParseChunkChar
    \/ ParseChunkEnd
    \/ ParseReturn

SpecParse == ParseInit /\ [][ParseNext]_vars

\* ------------------------------------------------------------------------
\* Claims about the parser (SpecParse)
\* ------------------------------------------------------------------------

\* C10: whatever the characters, parseXrf returns a non-empty error list,
\* or (no error having been recorded) a chunk list whose chunks each hold
\* exactly five commands, all of them primitive.
C10_ParserTotal ==
    pcParse = "returned" =>
        \/ /\ Deref(result).kind = "errors"
           /\ Deref(result).value # << >>
        \/ /\ Deref(result).kind = "chunks"
           /\ errors = << >>
           /\ \A k \in 1 .. Len(Deref(result).value) :
                LET commands == Deref(result).value[k].commands
                IN  /\ Len(commands) = COMMANDS_PER_CHUNK
                    /\ \A j \in 1 .. Len(commands) :
                         commands[j].type \in PrimitiveTypes

\* parseXrf has returned a chunk from a file that also held whitespace.
C10_Witness ==
    /\ pcParse = "returned"
    /\ Deref(result).kind = "chunks"
    /\ Len(Deref(result).value) = 1
    /\ Len(fileRead) > COMMANDS_PER_CHUNK

\* The source read so far, seen as text: blanks (what the C library takes
\* for whitespace), runs of other characters, and the 1-based line and
\* column of a position.
Blank(c) == isspace(c)

RunStarts(s) ==
    { i \in 1 .. Len(s) : ~Blank(s[i]) /\ (i = 1 \/ Blank(s[i - 1])) }

\* The last position of the run that position i is in.
RECURSIVE RunEnd(_, _)
RunEnd(s, i) ==
    IF i < Len(s) /\ ~Blank(s[i + 1]) THEN RunEnd(s, i + 1) ELSE i

RunLen(s, i) == RunEnd(s, i) - i + 1

LineOf(s, i) == 1 + Cardinality({ j \in 1 .. i - 1 : s[j] = 10 })

ColOf(s, i) == i - Max({0} \cup { j \in 1 .. i - 1 : s[j] = 10 })

\* The k-th run start, in source order.
NthRun(s, k) ==
    CHOOSE i \in RunStarts(s) : Cardinality({ j \in RunStarts(s) : j < i }) = k - 1

\* The value of a hexadecimal digit '0'..'9', 'A'..'F'.
HexValue(c) == IF c <= 57 THEN c - 48 ELSE c - 55

WellFormed(s) ==
    /\ \A i \in 1 .. Len(s) : Blank(s[i]) \/ s[i] \in CommandChars
    /\ \A i \in RunStarts(s) : RunLen(s, i) = COMMANDS_PER_CHUNK

\* The chunk a well-formed run stands for.
ChunkOfRun(s, i) ==
    Chunk([k \in 1 .. COMMANDS_PER_CHUNK |->
              Command(CommandTable[HexValue(s[i + k - 1]) + 1])],
          LineOf(s, i), ColOf(s, i))

\* C11: for a well-formed source parseXrf returns one chunk per maximal run
\* of non-blank characters, in source order; its k-th command is the one
\* the run's k-th character stands for and its line and column are those
\* (1-based) of the run's first character.
C11_ChunkPerRun ==
    (pcParse = "returned" /\ WellFormed(fileRead)) =>
        /\ Deref(result).kind = "chunks"
        /\ Len(Deref(result).value) = Cardinality(RunStarts(fileRead))
        /\ \A k \in 1 .. Len(Deref(result).value) :
             Deref(result).value[k] = ChunkOfRun(fileRead, NthRun(fileRead, k))

\* Two chunks were returned, the second from the second line.
C11_Witness ==
    /\ pcParse = "returned"
    /\ WellFormed(fileRead)
    /\ Deref(result).kind = "chunks"
    /\ Len(Deref(result).value) = 2
    /\ Deref(result).value[2].line = 2

\* The text words (case-sensitive, as std::string::find) is part of msg.
Contains(msg, words) ==
    \E i \in 1 .. Len(msg) - Len(words) + 1 :
        SubSeq(msg, i, i + Len(words) - 1) = words

\* The runs written with command characters only.
PureRuns(s) ==
    { i \in RunStarts(s) : \A k \in i .. RunEnd(s, i) : s[k] \in CommandChars }

\* The recorded errors positioned on a line from column col on, len
\* characters wide.
ErrorsInRun(line, col, len) ==
    { e \in 1 .. Len(errors) :
        errors[e].line = line /\ errors[e].col \in col .. col + len - 1 }

\* What is expected of a run of len command characters, len not five,
\* whose first character is at line and col.
WrongLengthRun(line, col, len) ==
    LET found == ErrorsInRun(line, col, len)
    IN  /\ Deref(result).kind = "errors"
        /\ Cardinality(found) = 1
        /\ \A e \in found :
             /\ errors[e].col = col
             /\ Contains(errors[e].msg,
                         IF len > COMMANDS_PER_CHUNK
                         THEN <<"too", "many", "commands">>
                         ELSE <<"doesn't", "have", "enough", "commands">>)
        /\ \A k \in 1 .. Len(parsedChunks) :
             ~(parsedChunks[k].line = line /\ parsedChunks[k].col = col)

\* C12: a run of command characters whose length is not five yields
\* exactly one error, at the line and column of the run's first character,
\* saying "too many commands" for a longer and "doesn't have enough
\* commands" for a shorter run, and no chunk.
C12_WrongLengthRun ==
    pcParse = "returned" =>
        \A i \in PureRuns(fileRead) :
            LET len == RunLen(fileRead, i)
            IN  len # COMMANDS_PER_CHUNK =>
                    WrongLengthRun(LineOf(fileRead, i), ColOf(fileRead, i), len)

\* A file with a run that is too long and a run that is too short was
\* parsed.
C12_Witness ==
    /\ pcParse = "returned"
    /\ \E i \in PureRuns(fileRead) : RunLen(fileRead, i) > COMMANDS_PER_CHUNK
    /\ \E i \in PureRuns(fileRead) : RunLen(fileRead, i) < COMMANDS_PER_CHUNK

\* The positions of the characters that are neither blank nor a command
\* character.
Offending(s) == { i \in 1 .. Len(s) : ~Blank(s[i]) /\ s[i] \notin CommandChars }

\* The only defect of s is one offending character, in a run that holds
\* exactly five command characters besides it.
OneInvalidCharacter(s) ==
    /\ Cardinality(Offending(s)) = 1
    /\ \A i \in RunStarts(s) :
         Cardinality({ k \in i .. RunEnd(s, i) : s[k] \in CommandChars })
             = COMMANDS_PER_CHUNK

\* C13: for such an input parseXrf returns exactly one error, at the line
\* and column of the offending character, whose message contains the text
\* "invalid command character".
C13_InvalidCharacter ==
    (pcParse = "returned" /\ OneInvalidCharacter(fileRead)) =>
        /\ Deref(result).kind = "errors"
        /\ Len(Deref(result).value) = 1
        /\ \A i \in Offending(fileRead) :
             /\ Deref(result).value[1].line = LineOf(fileRead, i)
             /\ Deref(result).value[1].col = ColOf(fileRead, i)
        /\ Contains(Deref(result).value[1].msg, <<"invalid", "command", "character">>)

\* The errors the run that starts at i is due: one per offending character
\* and one if it does not hold five command characters.
ErrorsDue(s, i) ==
    Cardinality({ k \in i .. RunEnd(s, i) : s[k] \notin CommandChars })
    + (IF Cardinality({ k \in i .. RunEnd(s, i) : s[k] \in CommandChars })
             = COMMANDS_PER_CHUNK
       THEN 0 ELSE 1)

\* The start of the run in which the e-th recorded error is positioned:
\* the last run start at or before the error's position.
RunOfError(s, e) ==
    Max({ i \in RunStarts(s) :
            \/ LineOf(s, i) < errors[e].line
            \/ LineOf(s, i) = errors[e].line /\ ColOf(s, i) <= errors[e].col })

\* C14: when parseXrf returns, the whole input was scanned: every run has
\* exactly the errors it is due, whatever came before it; the errors are
\* listed run by run in source order; and if there is any error the error
\* list is returned, not the chunks that parsed.
C14_ErrorsAccumulate ==
    pcParse = "returned" =>
        /\ \A i \in RunStarts(fileRead) :
             Cardinality(ErrorsInRun(LineOf(fileRead, i), ColOf(fileRead, i),
                                     RunLen(fileRead, i)))
                 = ErrorsDue(fileRead, i)
        /\ \A e \in 1 .. Len(errors) - 1 :
             RunOfError(fileRead, e) <= RunOfError(fileRead, e + 1)
        /\ errors # << >> =>
             Deref(result) = [kind |-> "errors", value |-> errors]

\* Errors of two runs were returned although a chunk had parsed.
C14_Witness ==
    /\ pcParse = "returned"
    /\ Deref(result).kind = "errors"
    /\ parsedChunks # << >>
    /\ Len(errors) >= 2
    /\ RunOfError(fileRead, 1) < RunOfError(fileRead, Len(errors))

\* ------------------------------------------------------------------------
\* More claims about optimizeChunk (SpecOpt)
\* ------------------------------------------------------------------------

\* Commands that compute on known values only.
ConstantTypes == {"Inc", "Dec", "Dup", "Add", "Pop", "Nop"}

\* Concrete execution of such commands from position k on the values st
\* above the caller's stack (bottom first): the values left, or << >> when
\* a Dec meets a top of 0 or a command reaches below the entry top.
RECURSIVE ConstantRun(_, _, _)
ConstantRun(commands, k, st) ==
    IF k > Len(commands) THEN st
    ELSE LET type == commands[k].type
             top == Last(st)
         IN  IF type = "Inc"
             THEN ConstantRun(commands, k + 1, Append(Front(st), Add32(top, U(1))))
             ELSE IF type = "Dec"
             THEN IF top = U(0) THEN << >>
                  ELSE ConstantRun(commands, k + 1, Append(Front(st), Sub32(top, U(1))))
             ELSE IF type = "Dup"
             THEN ConstantRun(commands, k + 1, Append(st, top))
             ELSE IF type = "Add"
             THEN IF Len(st) < 2 THEN << >>
                  ELSE ConstantRun(commands, k + 1,
                           Append(Front(Front(st)), Add32(top, Last(Front(st)))))
             ELSE IF type = "Pop"
             THEN IF Len(st) < 2 THEN << >>
                  ELSE ConstantRun(commands, k + 1, Front(st))
             ELSE ConstantRun(commands, k + 1, st)

\* optimizeChunk has returned for a chunk of such commands that leaves
\* exactly one value above the caller's stack.
ConstantChunkDone ==
    /\ pcOpt = "done"
    /\ \A k \in 1 .. Len(chunk.commands) : chunk.commands[k].type \in ConstantTypes
    /\ Len(ConstantRun(chunk.commands, 1, <<U(index)>>)) = 1

\* C15: for such a chunk at index i, with v the value concrete execution
\* computes from i, optimizeChunk yields next = v and the commands
\* [SetTop v], or no command when v = i.
C15_ConstantChunk ==
    ConstantChunkDone =>
        LET v == ConstantRun(chunk.commands, 1, <<U(index)>>)[1]
        IN  /\ Deref(optimized).nextChunk = Some(v)
            /\ Deref(optimized).commands =
                 IF v = U(index) THEN << >> ELSE <<CommandVal("SetTop", v)>>

\* Such a chunk with a Dec, a Dup and an Add was rewritten to a SetTop.
C15_Witness ==
    /\ ConstantChunkDone
    /\ \A type \in {"Dec", "Dup", "Add"} :
         \E k \in 1 .. Len(chunk.commands) : chunk.commands[k].type = type
    /\ Len(Deref(optimized).commands) = 1

\* ------------------------------------------------------------------------
\* Claims about main (SpecProg)
\* ------------------------------------------------------------------------

\* The chunks parseXrf returned to main.
ParsedChunks == Deref(parsed).value

\* main has reached generateCode.
GeneratorReached == pcMain \in {"generate", "generated"} \/ outFile # "closed"

\* optimizeProgram is running or has run.
ProgramOptimizerRan == pcMain \in {"optimizeProgram", "fuse"} \/ HasValue(toOptimize)

\* C16: the generator gets the parsed chunks untouched at level 0 and the
\* output of optimizeChunks alone at level 1; at level 2 or more it gets
\* what optimizeProgram returned, and optimizeProgram only ever works on the
\* output of optimizeChunks for the parsed chunks.
C16_PassesByLevel ==
    /\ GeneratorReached /\ optimizationLevel = 0 =>
         chunks = ParsedChunks /\ ~ProgramOptimizerRan
    /\ GeneratorReached /\ optimizationLevel = 1 =>
         chunks = optimizeChunks(ParsedChunks) /\ ~ProgramOptimizerRan
    /\ GeneratorReached /\ optimizationLevel >= 2 =>
         chunks = optimizedProgram /\ Len(chunks) = Len(ParsedChunks)
    /\ pcMain \in {"optimizeProgram", "fuse"} =>
         optimizationLevel >= 2 /\ chunks = optimizeChunks(ParsedChunks)

\* At level 2 the generator got chunks that optimizeProgram has changed.
C16_Witness ==
    /\ pcMain = "generated"
    /\ optimizationLevel = 2
    /\ chunks # optimizeChunks(ParsedChunks)

\* main has returned.
Exited == pcMain = "exited"

\* No stage after the parser has done anything.
NothingAfterParse ==
    /\ chunks = << >>
    /\ optimizedProgram = << >>
    /\ toOptimize = Nullopt
    /\ blocks = << >>
    /\ tableReads = {}
    /\ outFile = "closed"

C18_OutputUnwritable ==
    outFile = "failed" => exitCode = Some(1)

\* ------------------------------------------------------------------------
\* printParserErrors on long error lists (SpecPrint)
\* ------------------------------------------------------------------------

MaxErrors == 102

\* main after parseXrf returned the errors of a file with up to MaxErrors
\* wrong runs.
PrintInit ==
    /\ printVersion = FALSE
    /\ filename = "prog.xrf"
    /\ outFilename = ""
    /\ optimizationLevel = 0
    /\ file = "open"
    /\ \E n \in 1 .. MaxErrors, first \in 0 .. 1 :
         parsed = Some([kind |-> "errors", value |-> ErrorList(n, first)])
    /\ outFile = "closed"
    /\ cout = << >>
    /\ cerr = << >>
    /\ numErrors = 0
    /\ exitCode = Nullopt
    /\ chunks = << >>
    /\ pcMain = "parseXrf"
    /\ optimizedProgram = << >>
    /\ fuseIndex = U(0)
    /\ toOptimize = Nullopt
    /\ optimizedChunk = Nullopt
    /\ visited = {}
    /\ blocks = << >>
    /\ tableReads = {}
    /\ OptIdle /\ RingIdle /\ VisitIdle /\ ParseIdle /\ RunIdle

PrintNext ==
    \/ MainParseErrors
    \/ PrintError
    \/ PrintReturn

SpecPrint == PrintInit /\ [][PrintNext]_vars

\* C19: printParserErrors writes the errors' lines in list order; for more
\* than 100 errors it writes the first 100 lines and then only the line
\* "Too many errors, quitting."; for 100 errors or fewer it writes every
\* error and no quitting line.
C19_ErrorLines ==
    Exited =>
        LET errs == Deref(parsed).value
        IN  IF Len(errs) > 100
            THEN cerr = [k \in 1 .. 101 |->
                            IF k <= 100 THEN ErrorLine(errs[k]) ELSE QuitLine]
            ELSE cerr = [k \in 1 .. Len(errs) |-> ErrorLine(errs[k])]

\* A list of more than 100 errors was cut off by the quitting line.
C19_Witness ==
    /\ Exited
    /\ Len(Deref(parsed).value) > 100
    /\ cerr[Len(cerr)] = QuitLine

\* ------------------------------------------------------------------------
\* The simulator's Sub (SpecOpt)
\* ------------------------------------------------------------------------

\* The loop of optimizeChunk simulates a Sub in this step.
SubStep ==
    /\ pcOpt = "loop"
    /\ Len(chunk'.commands) = Len(chunk.commands) + 1
    /\ Last(chunk'.commands).type = "Sub"

\* The operands the Sub pops: the top and the value below it.
SubTop == doPop(stack).val

SubSecond == doPop(doPop(stack).sim).val

\* C20: a simulated Sub of two known values a (top) and b (second) leaves
\* the known value |a - b| on the abstract stack; when an operand is not a
\* known value it leaves a value with neither value nor index.
C20_SubAbsoluteDifference ==
    [][SubStep =>
        LET top == Last(stack'.values)
        IN  IF hasKnownValue(SubTop) /\ hasKnownValue(SubSecond)
            THEN top.value = Some(AbsDiff(getKnownValue(SubTop),
                                          getKnownValue(SubSecond)))
            ELSE ~hasKnownValue(top) /\ ~hasKnownIndex(top)]_vars

\* ------------------------------------------------------------------------
\* The simulator against the machine (SpecOpt)
\* ------------------------------------------------------------------------

\* The concrete value k places below the entry top (0: the entry top).
SlotAtEntry(below, k) ==
    IF k = 0 THEN U(index) ELSE below[Len(below) - k + 1]

\* The abstract value v stands for the concrete word c.
Agrees(v, c, below) ==
    IF hasKnownValue(v) THEN c = getKnownValue(v)
    ELSE IF hasKnownIndex(v)
    THEN c = Add32(MulSmall(SlotAtEntry(below, getIndex(v)),
                            getMultiple(v)[2]).val,
                   getChange(v))
    ELSE TRUE

\* The commands the loop has read: up to the first Jump or aborting command.
RECURSIVE ReadUpTo(_, _)
ReadUpTo(commands, k) ==
    IF k > Len(commands) THEN commands
    ELSE IF commands[k].type \in AbortingTypes \cup {"Jump"}
    THEN SubSeq(commands, 1, k)
    ELSE ReadUpTo(commands, k + 1)

ReadCommands == ReadUpTo(chunk.commands, 1)

\* The simulator's values agree with the machine that ran the commands
\* read so far from the entry stack below: the values on the abstract stack
\* with the topmost slots, the values sent to the bottom with the
\* bottommost ones (the last sent lowest).
SimulatorAgrees(below, env) ==
    LET m == RunCommands(MachineWith(U(index), below), ReadCommands, 1, env)
        c == Contents(m)
        n == Len(stack.values)
        b == Len(stack.bottom)
    IN  /\ \A j \in 1 .. n : Agrees(stack.values[j], c[Len(c) - n + j], below)
        /\ \A j \in 1 .. b : Agrees(stack.bottom[j], c[b - j + 1], below)

\* C21: after each simulated command, for every concrete entry stack with
\* the chunk's index on top, every abstract value agrees with the concrete
\* machine: a known value v is the slot's value, and index k, multiple m,
\* change c stand for m * x_k + c modulo 2^32.
C21_SimulatorSound ==
    \A below \in InitialStacks, env \in Envs : SimulatorAgrees(below, env)

\* ------------------------------------------------------------------------
\* When and how optimizeChunk rewrites a chunk (SpecOpt)
\* ------------------------------------------------------------------------

\* optimizeChunk has returned the chunk with a new command list.
Replaced ==
    /\ pcOpt = "done"
    /\ Deref(optimized).commands # chunk.commands

\* What must hold of the simulator for a rewrite, but for the lower entry.
ReplacedOnlyWhen ==
    /\ ~stack.hadIO
    /\ stack.maxPopped <= 1
    /\ \A k \in 1 .. Len(stack.bottom) : hasKnownValue(stack.bottom[k])
    /\ Len(stack.values) \in {1, 2}
    /\ hasKnownValue(stack.values[Len(stack.values)])

\* The lower of two entries is the caller's second slot.
LowerIsSecondSlot ==
    /\ hasKnownIndex(stack.values[1])
    /\ getIndex(stack.values[1]) = 1

\* C22 as stated: a chunk's commands are replaced only when, at the end of
\* simulation, there was no Input or Output, max_popped <= 1, every value
\* sent to the bottom is known, the abstract stack has one or two entries
\* with a known top, and the lower of two entries is known or is the
\* caller's second slot with no change.
C22_ReplacedOnlyWhen_NoChange ==
    Replaced =>
        /\ ReplacedOnlyWhen
        /\ Len(stack.values) = 2 =>
             \/ hasKnownValue(stack.values[1])
             \/ /\ LowerIsSecondSlot
                /\ getChange(stack.values[1]) = I32(0)
                /\ getMultiple(stack.values[1]) = U(1)

\* C22 amended: the lower of two entries is known or has index exactly 1,
\* whatever its change and multiple.
C22_ReplacedOnlyWhen ==
    Replaced =>
        /\ ReplacedOnlyWhen
        /\ Len(stack.values) = 2 =>
             hasKnownValue(stack.values[1]) \/ LowerIsSecondSlot

\* A chunk was rewritten whose lower entry is the second slot with a change.
C22_Witness ==
    /\ Replaced
    /\ Len(stack.values) = 2
    /\ ~hasKnownValue(stack.values[1])
    /\ getChange(stack.values[1]) # I32(0)

\* The synthesized list: its PushValueToBottom commands, its SetTop, its
\* second-slot command.
Synthesized == Deref(optimized).commands

BottomPart == SubSeq(Synthesized, 1, Len(stack.bottom))

TopKnown == getKnownValue(stack.values[Len(stack.values)])

HasSetTop == TopKnown # U(index)

AfterBottomPart ==
    SubSeq(Synthesized, Len(stack.bottom) + 1, Len(Synthesized))

SecondPart ==
    SubSeq(AfterBottomPart, (IF HasSetTop THEN 2 ELSE 1), Len(AfterBottomPart))

\* The second-slot command the claim prescribes.
SecondSlotRule ==
    LET lower == stack.values[1]
    IN  IF Len(stack.values) = 2
        THEN IF hasKnownValue(lower) /\ stack.maxPopped = 0
             THEN <<CommandVal("PushSecondValue", getKnownValue(lower))>>
             ELSE IF hasKnownValue(lower) /\ stack.maxPopped = 1
             THEN <<CommandVal("SetSecondValue", getKnownValue(lower))>>
             ELSE IF Ugt32(lower.multiple, U(1))
             THEN <<CommandVal("MultiplySecond", lower.multiple)>>
             ELSE IF lower.change # U(0)
             THEN <<CommandVal("AddToSecond", lower.change)>>
             ELSE << >>
        ELSE IF stack.maxPopped = 1 THEN <<Command("PopSecondValue")>>
        ELSE << >>

\* C23: a synthesized command list is one PushValueToBottom per value sent
\* to the bottom, in the order sent, then SetTop v iff the final top v is
\* not the chunk's index, then the second-slot command of the rule (at most
\* one), and nothing else.
C23_SynthesizedShape ==
    Replaced =>
        /\ Len(Synthesized) >= Len(stack.bottom)
        /\ \A k \in 1 .. Len(stack.bottom) :
             BottomPart[k] =
                 CommandVal("PushValueToBottom", getKnownValue(stack.bottom[k]))
        /\ HasSetTop =>
             /\ AfterBottomPart # << >>
             /\ AfterBottomPart[1] = CommandVal("SetTop", TopKnown)
        /\ \A k \in 1 .. Len(Synthesized) :
             Synthesized[k].type = "SetTop" =>
                 HasSetTop /\ k = Len(stack.bottom) + 1
        /\ SecondPart = SecondSlotRule
        /\ Len(SecondPart) <= 1

\* A list with all three parts was synthesized after a pop below the entry.
C23_Witness ==
    /\ Replaced
    /\ stack.bottom # << >>
    /\ HasSetTop
    /\ SecondPart # << >>
    /\ stack.maxPopped = 1

\* An aborting command was reached before any Jump.
Aborted == Last(ReadCommands).type \in AbortingTypes

\* Synthesis is permitted for the simulator's end state.
SynthesisPermitted ==
    /\ ReplacedOnlyWhen
    /\ Len(stack.values) = 2 =>
         hasKnownValue(stack.values[1]) \/ LowerIsSecondSlot

\* C24: optimizeChunk keeps a chunk's line and column; a chunk in which an
\* aborting command is reached before any Jump comes back with its commands
\* and no next; a chunk for which synthesis is not permitted keeps its five
\* commands and differs from the input at most in next.
C24_FrameKept ==
    pcOpt = "done" =>
        /\ Deref(optimized).line = chunk.line
        /\ Deref(optimized).col = chunk.col
        /\ Aborted => Deref(optimized) = chunk
        /\ ~SynthesisPermitted =>
             /\ Len(Deref(optimized).commands) = COMMANDS_PER_CHUNK
             /\ Deref(optimized).commands = chunk.commands
             /\ [Deref(optimized) EXCEPT !.nextChunk = Nullopt] = chunk

\* A chunk was returned untouched although the commands before its
\* aborting command had left a simulator state that permits synthesis.
C24_Witness ==
    /\ pcOpt = "done"
    /\ Aborted
    /\ Len(ReadCommands) < COMMANDS_PER_CHUNK
    /\ SynthesisPermitted
    /\ TopKnown # U(index)

\* ------------------------------------------------------------------------
\* Fusion along the chain of successors (SpecProg)
\* ------------------------------------------------------------------------

\* optimizeProgram is at work: chunks is its input, optimizedProgram what it
\* has emitted so far.
InOptimizeProgram == pcMain \in {"optimizeProgram", "fuse"}

Fusable(c) == \A k \in 1 .. Len(c.commands) : c.commands[k].type \in FusableTypes

\* Following next from chunk i (0-based) of cs through fusable chunks, path
\* being the chunks passed so far: the walk ends at a chunk that is not
\* fusable ("tail"), at a chunk already passed ("loop"), or where next is
\* absent or no index of cs ("outside").
RECURSIVE Walk(_, _, _)
Walk(cs, i, path) ==
    LET c == cs[i + 1]
    IN  IF ~Fusable(c) THEN [kind |-> "tail", path |-> path, last |-> i]
        ELSE IF \E k \in 1 .. Len(path) : path[k] = i
        THEN [kind |-> "loop", path |-> path, last |-> i]
        ELSE IF ~HasValue(c.nextChunk) \/ ~InRange(Deref(c.nextChunk), Len(cs))
        THEN [kind |-> "outside", path |-> Append(path, i), last |-> i]
        ELSE Walk(cs, Deref(c.nextChunk)[2], Append(path, i))

\* The commands of the chunks on path, one after the other.
RECURSIVE Concatenation(_, _, _)
Concatenation(cs, path, k) ==
    IF k > Len(path) THEN << >>
    ELSE cs[path[k] + 1].commands \o Concatenation(cs, path, k + 1)

\* C25: when the walk from a fusable chunk i passes distinct fusable chunks
\* and ends at a chunk t that is not fusable, the chunk emitted for i has
\* the chain's commands with every SetTop but the last removed, and next = t.
C25_FusedAlongChain ==
    InOptimizeProgram =>
        \A k \in 1 .. Len(optimizedProgram) :
            LET w == Walk(chunks, k - 1, << >>)
            IN  Fusable(chunks[k]) /\ w.kind = "tail" =>
                  /\ optimizedProgram[k].commands =
                       KeepLastSetTop(Concatenation(chunks, w.path, 1))
                  /\ optimizedProgram[k].nextChunk = Some(U(w.last))

\* Chunk 0 was fused with chunk 1, both holding a SetTop, up to chunk 2.
C25_Witness ==
    /\ InOptimizeProgram
    /\ Len(optimizedProgram) >= 1
    /\ Walk(chunks, 0, << >>).kind = "tail"
    /\ Walk(chunks, 0, << >>).path = <<0, 1>>
    /\ Cardinality(SetTopPositions(Concatenation(chunks, <<0, 1>>, 1))) = 2

\* C26: when the walk from a fusable chunk i comes back to a chunk already
\* passed before it reaches a chunk that is not fusable, the chunk emitted
\* for i is the original chunk i: its commands, next, line and column, and
\* none of the accumulated commands.
C26_LoopKeepsOriginal ==
    InOptimizeProgram =>
        \A k \in 1 .. Len(optimizedProgram) :
            Fusable(chunks[k]) /\ Walk(chunks, k - 1, << >>).kind = "loop" =>
                optimizedProgram[k] = chunks[k]

\* Chunk 0 was emitted unchanged after its chain ran into chunk 1, a chunk
\* with no commands that is its own successor.
C26_Witness ==
    /\ InOptimizeProgram
    /\ Len(optimizedProgram) >= 1
    /\ Walk(chunks, 0, << >>).kind = "loop"
    /\ Walk(chunks, 0, << >>).path = <<0, 1>>
    /\ chunks[1].commands # << >>
    /\ chunks[2].commands = << >>
    /\ chunks[2].nextChunk = Some(U(1))

\* The chunk list optimizeProgram was called with.
ProgramInput == optimizeChunks(ParsedChunks)

\* C27: a chunk with a command outside the fusable set is emitted by
\* optimizeProgram as it is (commands, next, line, column), whatever the
\* other chunks are; the emitted chunks stand at their chunks' positions
\* and the returned list is as long as the input.
C27_UnfusableKept ==
    /\ InOptimizeProgram =>
         /\ Len(optimizedProgram) <= Len(chunks)
         /\ \A k \in 1 .. Len(optimizedProgram) :
              ~Fusable(chunks[k]) => optimizedProgram[k] = chunks[k]
    /\ GeneratorReached /\ optimizationLevel >= 2 =>
         /\ Len(chunks) = Len(ProgramInput)
         /\ \A k \in 1 .. Len(chunks) :
              ~Fusable(ProgramInput[k]) => chunks[k] = ProgramInput[k]

\* optimizeProgram returned a list whose chunk 0 was fused and whose chunk 1
\* holds a command outside the fusable set.
C27_Witness ==
    /\ pcMain = "generate"
    /\ optimizationLevel >= 2
    /\ Len(chunks) >= 2
    /\ chunks[1] # ProgramInput[1]
    /\ ~Fusable(ProgramInput[2])

\* The machine after the blocks of the chunks on path ran one after the
\* other from m.
RECURSIVE RunChain(_, _, _, _, _)
RunChain(cs, path, k, m, env) ==
    IF k > Len(path) THEN m
    ELSE RunChain(cs, path, k + 1,
                  RunCommands(m, cs[path[k] + 1].commands, 1, env), env)

\* The chunks executed from chunk i (0-based) of cs up to the first chunk
\* that is not fusable: the fusable chain, or chunk i alone.
ChainFrom(cs, i) ==
    IF Fusable(cs[i + 1]) THEN Walk(cs, i, << >>).path ELSE <<i>>

\* Executing the emitted chunk and executing the chain of the input from
\* the same entry stack leave the same stack and enter the same chunk.
SameAsChain(emitted, cs, i, below, env) ==
    LET m0 == MachineWith(U(i), below)
        path == ChainFrom(cs, i)
        a == RunChain(cs, path, 1, m0, env)
        b == RunCommands(m0, emitted.commands, 1, env)
    IN  /\ Contents(a) = Contents(b)
        /\ ChunkEntered(cs[path[Len(path)] + 1], a) = ChunkEntered(emitted, b)

\* C28: for every index i of a program produced by optimizeChunks, the chunk
\* optimizeProgram emits for i leaves the same stack and reaches the same
\* chunk as chunk i of the input followed through its chain of fusable
\* successors up to the first chunk that is not fusable.
C28_FusionPreservesBehaviour ==
    InOptimizeProgram =>
        \A k \in 1 .. Len(optimizedProgram) :
            Walk(chunks, k - 1, << >>).kind # "loop" =>
                \A below \in InitialStacks, env \in Envs :
                    SameAsChain(optimizedProgram[k], chunks, k - 1, below, env)

\* ------------------------------------------------------------------------
\* Fusable chunks in the output of optimizeChunks (SpecOpt)
\* ------------------------------------------------------------------------

\* C29: a chunk returned by optimizeChunk whose commands are all of the
\* fusable types, the empty command list included, has next set (so the
\* fusion loop, which reads next of fusable chunks only, finds it).
C29_FusableHasNext ==
    pcOpt = "done" /\ Fusable(Deref(optimized)) =>
        HasValue(Deref(optimized).nextChunk)

\* A chunk was rewritten to the empty command list; its next is its index.
C29_Witness ==
    /\ pcOpt = "done"
    /\ Deref(optimized).commands = << >>
    /\ Deref(optimized).nextChunk = Some(U(index))

\* ------------------------------------------------------------------------
\* top_value at the entry of a chunk's block (SpecOpt)
\* ------------------------------------------------------------------------

\* The machine at the end of the block emitted for the returned chunk,
\* entered with the chunk's index in top_value.
AtBlockEnd(below, env) ==
    RunCommands(MachineWith(U(index), below), Deref(optimized).commands, 1, env)

\* C30: control enters the block of chunk i with top_value = i: the start
\* block enters chunk 0 with top_value 0, and a block entered with its own
\* index in top_value leaves for the chunk whose index is then in
\* top_value, by the dispatch switch or by the branch to its known next.
C30_EntryTopIsIndex ==
    /\ StartMachine.topValue = U(0)
    /\ pcOpt = "done" =>
         \A below \in InitialStacks, env \in Envs :
             ChunkEntered(Deref(optimized), AtBlockEnd(below, env))
                 = AtBlockEnd(below, env).topValue


\* ------------------------------------------------------------------------
\* The simulator's Dec (SpecOpt)
\* ------------------------------------------------------------------------

\* The loop of optimizeChunk simulates a Dec in this step.
DecStep ==
    /\ pcOpt = "loop"
    /\ Len(chunk'.commands) = Len(chunk.commands) + 1
    /\ Last(chunk'.commands).type = "Dec"

\* The operand the Dec pops.
DecOperand == doPop(stack).val

\* C37: a simulated Dec of a known value v > 0 leaves the known value v - 1
\* on the abstract stack, and a simulated Dec of the known value 0 leaves a
\* value with neither value nor index.
C37_DecOfKnownValue ==
    [][DecStep /\ hasKnownValue(DecOperand) =>
        LET top == Last(stack'.values)
            v == getKnownValue(DecOperand)
        IN  IF Ugt32(v, U(0))
            THEN top.value = Some(Sub32(v, U(1)))
            ELSE ~hasKnownValue(top) /\ ~hasKnownIndex(top)]_vars


\* ------------------------------------------------------------------------
\* Push, pop and PushSecondValue on the ring (SpecRing)
\* ------------------------------------------------------------------------

\* The values pushed.
PushedValues == {U(0), RingValue, I32(-1)}

\* The cells of m1 and m2 other than cell a hold the same.
SameCellsBut(m1, m2, a) ==
    /\ (DOMAIN m1.stack) \ {a} = (DOMAIN m2.stack) \ {a}
    /\ \A x \in (DOMAIN m1.stack) \ {a} : m1.stack[x] = m2.stack[x]

PushThenPop(m, v, u) ==
    LET pushed == emitPush(m, v)
        popped == emitPop(pushed, u)
    IN  /\ pushed.stack[m.stackTop] = m.topValue
        /\ pushed.topValue = v
        /\ pushed.stackTop = AndMask(m.stackTop + 1)
        /\ popped.topValue = m.topValue
        /\ popped.stackTop = m.stackTop
        /\ pushed.stackBottom = m.stackBottom
        /\ popped.stackBottom = m.stackBottom
        /\ SameCellsBut(pushed, m, m.stackTop)
        /\ SameCellsBut(popped, m, m.stackTop)

\* C34: from every state the emitted program reaches, wrapped indices
\* included, a push of v stores the old top_value at stack[stack_top], sets
\* top_value to v and advances stack_top; a pop right after restores
\* top_value and stack_top; neither changes stack_bottom or a cell other
\* than stack[old stack_top].
C34_PushPopIdentity ==
    \A v \in PushedValues, u \in UndefValues : PushThenPop(machine, v, u)

\* A pop has just undone a push of a value other than the top under it:
\* the cell at stack_top holds the restored top (not 0, the start value),
\* and the index had wrapped.
C34_Witness ==
    /\ ringSteps >= 3
    /\ machine.gep = {machine.stackTop}
    /\ machine.stackTop = STACK_MASK
    /\ machine.stackTop \in DOMAIN machine.stack
    /\ machine.stack[machine.stackTop] = machine.topValue
    /\ machine.topValue # U(0)

\* The ring holds fewer than STACK_SIZE elements: one more fits.
RoomForOne(m) == CellsBelowTop(m) < STACK_MASK

PushSecondThenPop(m, v, u) ==
    LET pushed == generatePushSecondValue(m, v)
        popped == generatePop(pushed, u)
    IN  /\ pushed.topValue = m.topValue
        /\ pushed.stackBottom = m.stackBottom
        /\ SameCellsBut(pushed, m, m.stackTop)
        /\ RoomForOne(m) => CellsBelowTop(pushed) = CellsBelowTop(m) + 1
        /\ ReadCell(pushed, emitGet2ndValue(pushed), u) = v
        /\ popped.topValue = v
        /\ popped.stackTop = m.stackTop

MaxEntries == 3

\* The commands the first chunk of the source is written with.
RunTypes == {"IgnoreFirst", "IgnoreVisited", "Inc", "Nop", "Jump", "Exit"}

\* The second chunk of the source.
RunSecondChunks ==
    { Cmds(<<"Nop", "Nop", "Nop", "Nop", "Nop">>),
      Cmds(<<"Inc", "Nop", "Nop", "Nop", "Nop">>),
      Cmds(<<"Dec", "Nop", "Jump", "Exit", "Nop">>),
      Cmds(<<"IgnoreVisited", "Dec", "IgnoreFirst", "Nop", "IgnoreFirst">>) }

\* What the parser returns for the sources tried: two chunks on one line.
RunSources ==
    { <<Chunk(Cmds(types), 1, 1), Chunk(second, 1, 2 + COMMANDS_PER_CHUNK)>> :
        types \in [1 .. COMMANDS_PER_CHUNK -> RunTypes],
        second \in RunSecondChunks }

\* What main hands to generateCode at -O0 and at -O1.
RunPrograms == RunSources \cup { optimizeChunks(source) : source \in RunSources }

\* The emitted main() is called: the globals have their initializers.
RunInit ==
    /\ runChunks \in RunPrograms
    /\ runIndex = 0
    /\ runBlock = Nullopt
    /\ runOp = 0
    /\ runMachine = StartMachine
    /\ visitedFlags = [k \in 0 .. Len(runChunks) - 1 |-> FALSE]
    /\ runReturn = Nullopt
    /\ pcRun = "start"
    /\ runEntries = 0
    /\ runPath = << >>
    /\ runSides = {}
    /\ firstRuns = [k \in 0 .. Len(runChunks) - 1 |-> 0]
    /\ OptIdle /\ ProgIdle /\ RingIdle /\ VisitIdle /\ ParseIdle

\* Control reaches chunkStarts[k], the block generateChunks filled with the
\* code of chunk k (setVisited defaults to false).
RunEnter(k) ==
    /\ runEntries < MaxEntries
    /\ runIndex' = k
    /\ runBlock' = generateCodeForChunk(runChunks[k + 1], FALSE)
    /\ runOp' = 1
    /\ runEntries' = runEntries + 1
    /\ runPath' = << >>
    /\ runSides' = {}
    /\ pcRun' = "block"

\* start: br chunkStarts[0]
RunStart ==
    /\ pcRun = "start"
    /\ RunEnter(0)
    /\ UNCHANGED <<runChunks, runMachine, visitedFlags, runReturn, firstRuns, notRun>>

\* The code of one command of the current block
RunCommand ==
    /\ pcRun = "block"
    /\ runOp <= Len(runBlock.ops)
    /\ \E env \in RingEnvs :
         runMachine' = ExecCommand(runMachine, runBlock.ops[runOp].command, env)
    /\ runPath' = Append(runPath, runBlock.ops[runOp].col - runChunks[runIndex + 1].col)
    /\ runOp' = runOp + 1
    /\ UNCHANGED <<runChunks, runIndex, runBlock, visitedFlags, runReturn, pcRun,
                   runEntries, runSides, firstRuns, notRun>>

RunAtTerminator(kind) ==
    /\ pcRun = "block"
    /\ runOp > Len(runBlock.ops)
    /\ runBlock.term.kind = kind

\* generateVisitJump: load visited-<index>; br hasVisited, visitedBlock,
\* firstBlock
RunCondBr ==
    /\ RunAtTerminator("condbr")
    /\ LET hasVisited == visitedFlags[runIndex]
           side == IF hasVisited THEN "visited" ELSE "first"
       IN  /\ runBlock' = IF hasVisited THEN runBlock.term.visitedBlock
                          ELSE runBlock.term.firstBlock
           /\ runSides' = runSides \cup {side}
           /\ firstRuns' = IF ~hasVisited /\ "first" \notin runSides
                           THEN [firstRuns EXCEPT ![runIndex] = @ + 1]
                           ELSE firstRuns
    /\ runPath' = Append(runPath, runBlock.term.col - runChunks[runIndex + 1].col)
    /\ runOp' = 1
    /\ UNCHANGED <<runChunks, runIndex, runMachine, visitedFlags, runReturn, pcRun,
                   runEntries, notRun>>

\* The store that precedes the br of a block generated with setVisited.
RunStore ==
    visitedFlags' = IF runBlock.term.setVisited
                    THEN [visitedFlags EXCEPT ![runIndex] = TRUE]
                    ELSE visitedFlags

\* The end of a block without a known next chunk: br stack-jump
RunBrStackJump ==
    /\ RunAtTerminator("br")
    /\ ~HasValue(runBlock.term.target)
    /\ RunStore
    /\ pcRun' = "stack-jump"
    /\ UNCHANGED <<runChunks, runIndex, runBlock, runOp, runMachine, runReturn,
                   runEntries, runPath, runSides, firstRuns, notRun>>

\* The end of a block with a known next chunk: br chunks[*knownJump]
RunBrKnown ==
    /\ RunAtTerminator("br")
    /\ HasValue(runBlock.term.target)
    /\ InRange(Deref(runBlock.term.target), Len(runChunks))
    /\ RunStore
    /\ RunEnter(Deref(runBlock.term.target)[2])
    /\ UNCHANGED <<runChunks, runMachine, runReturn, firstRuns, notRun>>

\* The same with a next chunk past the end of the block table: the operand
\* of the br was read outside the vector.  The module is broken (no
\* program runs), or the br leads to some block of main.
RunBrOutside ==
    /\ RunAtTerminator("br")
    /\ HasValue(runBlock.term.target)
    /\ ~InRange(Deref(runBlock.term.target), Len(runChunks))
    /\ RunStore
    /\ \/ /\ pcRun' = "crashed"
          /\ UNCHANGED <<runIndex, runBlock, runOp, runEntries, runPath, runSides>>
       \/ \E k \in 0 .. Len(runChunks) - 1 : RunEnter(k)
    /\ UNCHANGED <<runChunks, runMachine, runReturn, firstRuns, notRun>>

\* An Exit that goes to stack-jump instead of returning.
RunRet_Dispatches ==
    /\ RunAtTerminator("ret")
    /\ pcRun' = "stack-jump"
    /\ UNCHANGED <<runChunks, runIndex, runBlock, runOp, runMachine, visitedFlags,
                   runReturn, runEntries, runPath, runSides, firstRuns, notRun>>

\* Exit: ret i32 0
RunRet ==
    /\ RunAtTerminator("ret")
    /\ runReturn' = Some(0)
    /\ pcRun' = "returned"
    /\ UNCHANGED <<runChunks, runIndex, runBlock, runOp, runMachine, visitedFlags,
                   runEntries, runPath, runSides, firstRuns, notRun>>

\* stack-jump: switch top_value, case i -> chunkStarts[i]
RunStackJump ==
    /\ pcRun = "stack-jump"
    /\ InRange(runMachine.topValue, Len(runChunks))
    /\ RunEnter(runMachine.topValue[2])
    /\ UNCHANGED <<runChunks, runMachine, visitedFlags, runReturn, firstRuns, notRun>>

\* stack-jump: the default case is stack-error, a block that holds only
\* `unreachable'.  Executing it is undefined: the process dies, or control
\* lands on a block of main.
RunStackError ==
    /\ pcRun = "stack-jump"
    /\ ~InRange(runMachine.topValue, Len(runChunks))
    /\ \/ /\ pcRun' = "crashed"
          /\ UNCHANGED <<runIndex, runBlock, runOp, runEntries, runPath, runSides>>
       \/ \E k \in 0 .. Len(runChunks) - 1 : RunEnter(k)
    /\ UNCHANGED <<runChunks, runMachine, visitedFlags, runReturn, firstRuns, notRun>>

RunNext ==
    \/ RunStart
    \/ RunCommand
    \/ RunCondBr
    \/ RunBrStackJump
    \/ RunBrKnown
    \/ RunBrOutside
    \/ RunRet
    \/ RunStackJump
    \/ RunStackError

SpecRun == RunInit /\ [][RunNext]_vars

\* ------------------------------------------------------------------------
\* Claims about the visited flags and the ends of blocks (SpecRun)
\* ------------------------------------------------------------------------

\* The chunk whose code is being executed.
RunChunk == runChunks[runIndex + 1]

\* The chunk's block has been left by this step: the program crashed or
\* went to stack-jump, or a chunk block was entered.
BlockLeft == pcRun' \in {"stack-jump", "crashed"} \/ runEntries' = runEntries + 1

FlagsStartAtZero ==
    pcRun = "start" => \A k \in DOMAIN visitedFlags : ~visitedFlags[k]

\* One entry takes first-visit sides or already-visited sides, never both,
\* and a block that ends an already-visited path has no store.
OneSidePerEntry ==
    pcRun = "block" =>
        /\ runSides # {"first", "visited"}
        /\ RunAtTerminator("br") /\ "visited" \in runSides =>
               ~runBlock.term.setVisited

FirstPathOnce == \A k \in DOMAIN firstRuns : firstRuns[k] <= 1

FlagSteps ==
    \A k \in DOMAIN visitedFlags :
        /\ visitedFlags[k] => visitedFlags'[k]
        /\ visitedFlags'[k] # visitedFlags[k] =>
               /\ k = runIndex
               /\ RunAtTerminator("br")
               /\ runSides = {"first"}
               /\ BlockLeft
        /\ k = runIndex /\ RunAtTerminator("br") /\ runSides = {"first"} =>
               visitedFlags'[k]

\* C31: every visited flag is 0 at the start; it changes only from 0 to 1,
\* in the store at the end of a block of its own chunk that was reached by
\* first-visit sides, after the block's commands and together with the
\* branch out; such an end always stores, an end reached by already-visited
\* sides never does; and per chunk at most one entry takes a first-visit
\* side.
C31_VisitedFlag ==
    /\ [](FlagsStartAtZero /\ OneSidePerEntry /\ FirstPathOnce)
    /\ [][FlagSteps]_vars

\* A chunk is being executed again, on the already-visited side, after its
\* first-visit path has set its flag.
C31_Witness ==
    /\ pcRun = "block"
    /\ runSides = {"visited"}
    /\ visitedFlags[runIndex]
    /\ firstRuns[runIndex] = 1

\* C32: at the end of a block (last command or Jump) control enters the
\* block of chunk next when the chunk has a known next, and stack-jump
\* otherwise; stack-jump enters chunk k when top_value = k is a chunk index
\* and no chunk block when top_value is no chunk index.
C32_KnownNextOrDispatch ==
    [][/\ RunAtTerminator("br") =>
            IF HasValue(RunChunk.nextChunk)
            THEN /\ pcRun' = "block"
                 /\ runEntries' = runEntries + 1
                 /\ U(runIndex') = Deref(RunChunk.nextChunk)
            ELSE pcRun' = "stack-jump"
       /\ pcRun = "stack-jump" =>
            IF InRange(runMachine.topValue, Len(runChunks))
            THEN /\ pcRun' = "block"
                 /\ runEntries' = runEntries + 1
                 /\ U(runIndex') = runMachine.topValue
            ELSE pcRun' # "block"]_vars

\* The position control has reached in the chunk: the one after the last
\* command run, or after the command a predicate made it skip.
Reached ==
    IF runPath = << >> THEN 0
    ELSE LET q == Last(runPath)
         IN  IF /\ LivePredicate(RunChunk.commands, q)
                /\ Skips(RunChunk.commands[q + 1].type, "first" \in runSides)
             THEN q + 2 ELSE q + 1

ReachedType ==
    IF Reached < Len(RunChunk.commands)
    THEN RunChunk.commands[Reached + 1].type ELSE "end"

\* The commands run in this entry are no Jump and no Exit, and each is the
\* one placed right after the one before it, or the second after a
\* predicate that is not the last command.
RunInOrder ==
    \A j \in 1 .. Len(runPath) :
        /\ RunChunk.commands[runPath[j] + 1].type \notin {"Jump", "Exit"}
        /\ j < Len(runPath) =>
              \/ runPath[j + 1] = runPath[j] + 1
              \/ /\ runPath[j + 1] = runPath[j] + 2
                 /\ LivePredicate(RunChunk.commands, runPath[j])

\* Control at a Jump or an Exit is at the end of its block.
StopsAtJumpOrExit ==
    pcRun = "block" =>
        /\ RunInOrder
        /\ ReachedType \in {"Jump", "Exit"} => runOp > Len(runBlock.ops)
        /\ ReachedType = "Exit" => runBlock.term.kind = "ret"
        /\ ReachedType = "Jump" =>
              /\ runBlock.term.kind = "br"
              /\ runBlock.term.setVisited = ("first" \in runSides)
              /\ runBlock.term.target = RunChunk.nextChunk

ExitStep ==
    pcRun = "block" /\ ReachedType = "Exit" =>
        /\ pcRun' = "returned"
        /\ runReturn' = Some(0)
        /\ visitedFlags' = visitedFlags
        /\ runEntries' = runEntries

\* C33: in one execution of a chunk the commands run are in order and none
\* is or follows a Jump or an Exit that control reached; at an Exit main
\* returns 0 and neither stores a visited flag nor dispatches; at a Jump the
\* block ends with the chunk terminator (the store exactly on the
\* first-visit path, then the branch to the known next or to stack-jump).
C33_NothingAfterJumpOrExit ==
    /\ []StopsAtJumpOrExit
    /\ [][ExitStep]_vars

\* A first-visit path was ended by a Jump that has a command other than
\* Nop behind it, and by the terminator's store.
C33_Witness ==
    /\ pcRun = "stack-jump"
    /\ ReachedType = "Jump"
    /\ Reached <= 3
    /\ RunChunk.commands[Reached + 2].type = "Inc"
    /\ runSides = {"first"}
    /\ visitedFlags[runIndex]
    /\ runPath # << >>

\* The next instruction group is the code of a predicate command.
AtPredicateCode ==
    /\ pcRun = "block"
    /\ runOp <= Len(runBlock.ops)
    /\ runBlock.ops[runOp].command.type \in PredicateTypes

LastPosition == Len(RunChunk.commands) - 1

PredicateLastStep ==
    /\ RunAtTerminator("condbr") =>
          runBlock.term.col - RunChunk.col # LastPosition
    /\ AtPredicateCode =>
          /\ runBlock.ops[runOp].col - RunChunk.col = LastPosition
          /\ runMachine'.topValue = runMachine.topValue
          /\ runMachine'.stack = runMachine.stack
          /\ runMachine'.stackTop = runMachine.stackTop
          /\ runMachine'.stackBottom = runMachine.stackBottom
          /\ visitedFlags' = visitedFlags
          /\ runBlock' = runBlock
          /\ runOp' > Len(runBlock.ops)
          /\ runBlock.term.kind = "br"
          /\ runBlock.term.setVisited = ("first" \in runSides)
          /\ runBlock.term.target = RunChunk.nextChunk

\* C36: no visited flag is tested for a predicate that is the last command
\* of its chunk; its code changes neither the machine nor a visited flag
\* and is followed by the chunk terminator (the store exactly on a
\* first-visit path, the branch to the known next or to stack-jump), on
\* every visit.
C36_PredicateLastIsNoOp ==
    [][PredicateLastStep]_vars

\* A later visit of a chunk has run its last command, a predicate, and
\* left through the terminator.
C36_Witness ==
    /\ pcRun = "stack-jump"
    /\ runEntries >= 2
    /\ visitedFlags[runIndex]
    /\ runPath # << >>
    /\ Last(runPath) = LastPosition
    /\ RunChunk.commands[LastPosition + 1].type \in PredicateTypes

============================================================================
